---------------------------- MODULE Spec2Model ----------------------------
(***************************************************************************)
(* A model of the log-structured key/value engine: the data files as       *)
(* sequences of framed records, the Engine (active file, older files,      *)
(* key directory, sequence counter), the WriteBatch commit protocol and    *)
(* the index rebuild of Engine::open.                                      *)
(***************************************************************************)
EXTENDS Integers, Sequences, FiniteSets, TLC

(* ------------------------------ bounds -------------------------------- *)

\* most records the data directory ever holds
MaxRecords == 4
\* most times the engine is closed or killed in one behaviour
MaxStops == 1
\* most injected I/O failures (write or sync returning Err) in one behaviour
MaxIOErrors == 1
\* Options.data_file_size chosen for the runs (the rollover threshold)
DataFileSize == 28

(* --------------------------- program constants ------------------------ *)

INITIAL_FILE_ID == 0
NON_TRANSACTION_SEQ_NO == 0
\* "txn-fin".as_bytes()
TXN_FIN_KEY == <<116, 120, 110, 45, 102, 105, 110>>
\* LogRecordType as u8
NORMAL == 1
DELETED == 2
TXN_FINISHED == 3

(* ------------------------------ inputs -------------------------------- *)

\* user keys "a" and "b"
Keys == {<<97>>, <<98>>}
\* user values "" and "x" for Engine::put, "y" for WriteBatch::put
Values == {<< >>, <<120>>}
BatchValues == {<<121>>}
\* WriteBatchOptions.max_batch_num offered to new_write_batch
BatchLimits == {1, 2}

(* ------------------------------ codec --------------------------------- *)

\* prost::encode_length_delimiter for values below 2^14: 7 bits per byte,
\* low group first, high bit set on every byte but the last
EncodeVarint(n) ==
    IF n < 128 THEN <<n>> ELSE <<128 + (n % 128), n \div 128>>

\* prost::length_delimiter_len
LengthDelimiterLen(n) == IF n < 128 THEN 1 ELSE 2

\* prost::decode_length_delimiter on the front of buf: the value and the
\* number of bytes it took ("bad" when the buffer ends inside the varint)
DecodeVarint(buf) ==
    IF Len(buf) = 0 THEN [ok |-> FALSE, value |-> 0, used |-> 0]
    ELSE IF buf[1] < 128 THEN [ok |-> TRUE, value |-> buf[1], used |-> 1]
    ELSE IF Len(buf) < 2 \/ buf[2] >= 128
         THEN [ok |-> FALSE, value |-> 0, used |-> 0]
    ELSE [ok |-> TRUE, value |-> (buf[1] - 128) + 128 * buf[2], used |-> 2]

\* batch.rs log_record_key_with_seq: varint(seq_no) || key
LogRecordKeyWithSeq(key, seq_no) == EncodeVarint(seq_no) \o key

\* batch.rs parse_log_record_key: (real key, seq_no); the unwrap panics
\* when the key does not start with a varint
ParseLogRecordKey(key) ==
    LET d == DecodeVarint(key)
    IN  [ok |-> d.ok,
         key |-> IF d.ok THEN SubSeq(key, d.used + 1, Len(key)) ELSE << >>,
         seq_no |-> d.value]

\* LogRecord::encode_length: type, two length varints, key, value, crc32
EncodeLength(rec) ==
    1 + LengthDelimiterLen(Len(rec.key)) + LengthDelimiterLen(Len(rec.value))
      + Len(rec.key) + Len(rec.value) + 4

\* LogRecordType::from_u8 ("panic" for an unknown tag)
FromU8(v) ==
    IF v = NORMAL THEN "NORMAL"
    ELSE IF v = DELETED THEN "DELETED"
    ELSE IF v = TXN_FINISHED THEN "TXN_FINISHED"
    ELSE "panic"


(* ------------------------------ state --------------------------------- *)

VARIABLES
    disk,         \* the data directory: file id -> the records of NNNNNNNNN.data
    status,       \* "up", "closed", "crashed", or how Engine::open ended
    activeId,     \* Engine.active_file: its file_id
    writeOff,     \* Engine.active_file: its write_off
    older,        \* Engine.older_files: the ids it holds
    index,        \* Engine.indexer: key -> LogRecordPos
    seqNo,        \* Engine.seq_no
    batchLock,    \* Engine.batch_commit_lock: the holder, 0 when free
    maxBatchNum,  \* WriteBatchOptions.max_batch_num of each caller's batch
    pending,      \* WriteBatch.pending_writes of each caller's batch
    iter,         \* the Iterator caller 1 holds, and what it has yielded
    pc,           \* where each caller stands inside its current call
    loc,          \* the locals of each caller's current call
    ret,          \* what the call that finished last returned
    logical,      \* history: key -> value by the writes durable so far, in disk order
    nCommitOk,    \* history: commits of a non-empty batch that returned Ok
    nCommitErr,   \* history: commits that returned a write's or the sync's error
    ioErrors,     \* history: injected I/O failures
    fresh,        \* history: the engine was opened on an empty directory
    nStops,       \* history: times the engine was closed or killed
    stop          \* history: the engine as it was when it last closed or crashed

vars == <<disk, status, activeId, writeOff, older, index, seqNo, batchLock,
          maxBatchNum, iter, pending, pc, loc, ret, logical, nCommitOk, nCommitErr,
          ioErrors, fresh, nStops, stop>>

engineVars == <<activeId, writeOff, older, index, seqNo>>
histVars == <<logical, nCommitOk, nCommitErr, ioErrors, fresh, nStops, stop>>

Threads == {1, 2}

EmptyMap == [x \in {} |-> 0]
NoPos == [file_id |-> -1, offset |-> -1]

MapPut(m, k, v) == [x \in DOMAIN m \cup {k} |-> IF x = k THEN v ELSE m[x]]
MapRemove(m, k) == [x \in DOMAIN m \ {k} |-> m[x]]

(* ---------------------------- data files ------------------------------ *)

RECURSIVE SizeOf(_)
\* the byte length of a file holding the records recs
SizeOf(recs) ==
    IF recs = << >> THEN 0
    ELSE EncodeLength(Head(recs)) + SizeOf(Tail(recs))

\* the offset at which the i-th record of recs starts
OffsetOf(recs, i) == SizeOf(SubSeq(recs, 1, i - 1))

TotalRecords == LET RECURSIVE Sum(_)
                    Sum(S) == IF S = {} THEN 0
                              ELSE LET f == CHOOSE x \in S : TRUE
                                   IN  Len(disk[f]) + Sum(S \ {f})
                IN  Sum(DOMAIN disk)

\* the crc32 that encode_and_get_crc appends, over the type byte, the sizes,
\* the key and the value: kept as the content it was computed from, so that
\* two records have one checksum only when they have one content
Crc(rec_type, key, value) == <<rec_type, key, value>>

\* DataFile::read_log_record on a file holding recs. Past the end the header
\* buffer stays zeroed (key and value size 0): ReadDataFileEOF. An offset
\* inside a record reads bytes that are no frame: "misaligned". The type
\* byte is converted (data_file.rs 85) before the checksum is compared
\* (data_file.rs 88-91).
ReadLogRecord(recs, offset) ==
    IF offset >= SizeOf(recs)
    THEN [res |-> "ReadDataFileEOF", rec_type |-> "none", key |-> << >>,
          value |-> << >>, size |-> 0]
    ELSE IF \E i \in 1..Len(recs) : OffsetOf(recs, i) = offset
    THEN LET i == CHOOSE j \in 1..Len(recs) : OffsetOf(recs, j) = offset
             ty == FromU8(recs[i].tag)
         IN  [res |-> IF ty = "panic" THEN "panic"
                      ELSE IF recs[i].crc # Crc(recs[i].tag, recs[i].key, recs[i].value)
                      THEN "InvalidLogRecordCrc"
                      ELSE "Ok",
              rec_type |-> ty, key |-> recs[i].key, value |-> recs[i].value,
              size |-> EncodeLength(recs[i])]
    ELSE [res |-> "misaligned", rec_type |-> "none", key |-> << >>,
          value |-> << >>, size |-> 0]

\* a record as DataFile::write leaves it on disk; g_seq and g_key are history
\* (the batch that wrote it, 0 for none, and the user key it was written for)
Frame(rec_type, key, value, g_seq, g_key) ==
    [tag |-> rec_type, key |-> key, value |-> value,
     crc |-> Crc(rec_type, key, value), g_seq |-> g_seq, g_key |-> g_key]

(* ------------------------------ engine -------------------------------- *)

\* mutant of AppendLogRecord: the offset is read after the write, so the
\* position returned is where the record ends
AppendLogRecord_OffsetAfterWrite(rec) ==
    LET roll == writeOff + EncodeLength(rec) > DataFileSize
        fid  == IF roll THEN activeId + 1 ELSE activeId
        off  == IF roll THEN 0 ELSE writeOff
        old  == IF fid \in DOMAIN disk THEN disk[fid] ELSE << >>
    IN  [activeId |-> fid,
         writeOff |-> off + EncodeLength(rec),
         older    |-> IF roll THEN older \cup {activeId} ELSE older,
         disk     |-> MapPut(disk, fid, Append(old, rec)),
         pos      |-> [file_id |-> fid, offset |-> off + EncodeLength(rec)]]

\* mutant of AppendLogRecord: a rollover leaves the old active file out of
\* the older-files map
AppendLogRecord_ForgetsOldFile(rec) ==
    LET roll == writeOff + EncodeLength(rec) > DataFileSize
        fid  == IF roll THEN activeId + 1 ELSE activeId
        off  == IF roll THEN 0 ELSE writeOff
        old  == IF fid \in DOMAIN disk THEN disk[fid] ELSE << >>
    IN  [activeId |-> fid,
         writeOff |-> off + EncodeLength(rec),
         older    |-> older,
         disk     |-> MapPut(disk, fid, Append(old, rec)),
         pos      |-> [file_id |-> fid, offset |-> off]]

\* mutant of AppendLogRecord: the rollover waits until the active file has
\* reached data_file_size, whatever the length of the record
AppendLogRecord_RollsWhenFull(rec) ==
    LET roll == writeOff >= DataFileSize
        fid  == IF roll THEN activeId + 1 ELSE activeId
        off  == IF roll THEN 0 ELSE writeOff
        old  == IF fid \in DOMAIN disk THEN disk[fid] ELSE << >>
    IN  [activeId |-> fid,
         writeOff |-> off + EncodeLength(rec),
         older    |-> IF roll THEN older \cup {activeId} ELSE older,
         disk     |-> MapPut(disk, fid, Append(old, rec)),
         pos      |-> [file_id |-> fid, offset |-> off]]

\* Engine::append_log_record with the write succeeding: the engine and the
\* directory afterwards, and the position returned
AppendLogRecord(rec) ==
    LET roll == writeOff + EncodeLength(rec) > DataFileSize
        fid  == IF roll THEN activeId + 1 ELSE activeId
        off  == IF roll THEN 0 ELSE writeOff
        old  == IF fid \in DOMAIN disk THEN disk[fid] ELSE << >>
    IN  [activeId |-> fid,
         writeOff |-> off + EncodeLength(rec),
         older    |-> IF roll THEN older \cup {activeId} ELSE older,
         disk     |-> MapPut(disk, fid, Append(old, rec)),
         pos      |-> [file_id |-> fid, offset |-> off]]

\* Engine::append_log_record with DataFile::write failing: a rollover that
\* was due has happened, nothing was written
AppendLogRecordErr(rec) ==
    LET roll == writeOff + EncodeLength(rec) > DataFileSize
        fid  == IF roll THEN activeId + 1 ELSE activeId
        old  == IF fid \in DOMAIN disk THEN disk[fid] ELSE << >>
    IN  [activeId |-> fid,
         writeOff |-> IF roll THEN 0 ELSE writeOff,
         older    |-> IF roll THEN older \cup {activeId} ELSE older,
         disk     |-> MapPut(disk, fid, old)]

\* a rollover is due for rec (db.rs 127)
RolloverDue(rec) == writeOff + EncodeLength(rec) > DataFileSize

\* Engine::append_log_record when a rollover is due and DataFile::new of the
\* new file fails (db.rs 136): the old file is already in the older-files
\* map (db.rs 134), the active file is not replaced, nothing is created or
\* written
AppendLogRecordOpenErr(rec) ==
    [activeId |-> activeId,
     writeOff |-> writeOff,
     older    |-> older \cup {activeId},
     disk     |-> disk]

\* mutant of GetValueByPosition: only the active file is looked at
GetValueByPosition_ActiveOnly(pos) ==
    IF pos.file_id # activeId
    THEN [res |-> "DataFileNotFound", value |-> << >>]
    ELSE LET r == ReadLogRecord(disk[pos.file_id], pos.offset)
         IN  IF r.res # "Ok" THEN [res |-> r.res, value |-> << >>]
             ELSE IF r.rec_type = "DELETED"
             THEN [res |-> "KeyNotFound", value |-> << >>]
             ELSE [res |-> "Ok", value |-> r.value]

\* Engine::get_value_by_position
GetValueByPosition(pos) ==
    IF pos.file_id # activeId /\ pos.file_id \notin older
    THEN [res |-> "DataFileNotFound", value |-> << >>]
    ELSE LET r == ReadLogRecord(disk[pos.file_id], pos.offset)
         IN  IF r.res # "Ok" THEN [res |-> r.res, value |-> << >>]
             ELSE IF r.rec_type = "DELETED"
             THEN [res |-> "KeyNotFound", value |-> << >>]
             ELSE [res |-> "Ok", value |-> r.value]

\* Engine::get
EngineGet(key) ==
    IF key = << >> THEN [res |-> "KeyIsEmpty", value |-> << >>]
    ELSE IF key \notin DOMAIN index THEN [res |-> "KeyNotFound", value |-> << >>]
    ELSE GetValueByPosition(index[key])

\* Engine::list_keys (the set of keys the ordered map holds)
ListKeys == DOMAIN index

(* ----------------------------- recovery ------------------------------- *)

RECURSIVE SortDescending(_)
\* file_ids.sort_unstable_by(|a, b| b.cmp(a))
SortDescending(S) ==
    IF S = {} THEN << >>
    ELSE LET m == CHOOSE x \in S : \A y \in S : y <= x
         IN  <<m>> \o SortDescending(S \ {m})

\* db.rs load_data_files, and the file_ids Engine::open takes from it: the
\* ids of the directory's data files, highest first
LoadDataFiles == SortDescending(DOMAIN disk)

\* Engine::update_index on the directory idx
UpdateIndex(idx, key, rec_type, pos) ==
    IF rec_type = "NORMAL" THEN [ok |-> TRUE, index |-> MapPut(idx, key, pos)]
    ELSE IF rec_type = "DELETED"
    THEN [ok |-> key \in DOMAIN idx, index |-> MapRemove(idx, key)]
    ELSE [ok |-> TRUE, index |-> idx]

\* the state of load_index_from_data_files before anything is read
Replay0 ==
    [res |-> "Ok", index |-> EmptyMap, txn |-> << >>, cur |-> NON_TRANSACTION_SEQ_NO,
     offset |-> 0, writeOff |-> 0]

RECURSIVE ApplyTransaction(_, _)
\* the loop over the buffered records of one sequence number (db.rs 274-276)
ApplyTransaction(r, records) ==
    IF records = << >> \/ r.res # "Ok" THEN r
    ELSE LET t == Head(records)
             u == UpdateIndex(r.index, t.key, t.rec_type, t.pos)
         IN  IF u.ok
             THEN ApplyTransaction([r EXCEPT !.index = u.index], Tail(records))
             ELSE [r EXCEPT !.res = "IndexUpdateFailed"]

\* mutant of ReplayRecord: the current sequence number is raised only by the
\* records that are applied, not by those that are buffered
ReplayRecord_CountsAppliedOnly(r, rd, pos) ==
    LET p == ParseLogRecordKey(rd.key)
        buffered == SelectSeq(r.txn, LAMBDA t : t.seq_no = p.seq_no)
        r1 == IF p.seq_no = NON_TRANSACTION_SEQ_NO
              THEN LET u == UpdateIndex(r.index, p.key, rd.rec_type, pos)
                   IN  IF u.ok THEN [r EXCEPT !.index = u.index]
                       ELSE [r EXCEPT !.res = "IndexUpdateFailed"]
              ELSE IF rd.rec_type = "TXN_FINISHED"
              THEN IF buffered = << >> THEN [r EXCEPT !.res = "panic"]
                   ELSE LET a == ApplyTransaction(r, buffered)
                        IN  [a EXCEPT !.txn =
                               SelectSeq(r.txn, LAMBDA t : t.seq_no # p.seq_no)]
              ELSE [r EXCEPT !.txn = Append(r.txn,
                       [seq_no |-> p.seq_no, key |-> p.key,
                        rec_type |-> rd.rec_type, pos |-> pos])]
    IN  IF ~p.ok THEN [r EXCEPT !.res = "panic"]
        ELSE IF r1.res # "Ok" THEN r1
        ELSE [r1 EXCEPT !.cur = IF p.seq_no > r1.cur /\ rd.rec_type = "TXN_FINISHED"
                                THEN p.seq_no ELSE r1.cur,
                        !.offset = r.offset + rd.size]

\* the body of the replay loop for one record read at pos (db.rs 258-293)
ReplayRecord(r, rd, pos) ==
    LET p == ParseLogRecordKey(rd.key)
        buffered == SelectSeq(r.txn, LAMBDA t : t.seq_no = p.seq_no)
        r1 == IF p.seq_no = NON_TRANSACTION_SEQ_NO
              THEN LET u == UpdateIndex(r.index, p.key, rd.rec_type, pos)
                   IN  IF u.ok THEN [r EXCEPT !.index = u.index]
                       ELSE [r EXCEPT !.res = "IndexUpdateFailed"]
              ELSE IF rd.rec_type = "TXN_FINISHED"
              THEN IF buffered = << >> THEN [r EXCEPT !.res = "panic"]
                   ELSE LET a == ApplyTransaction(r, buffered)
                        IN  [a EXCEPT !.txn =
                               SelectSeq(r.txn, LAMBDA t : t.seq_no # p.seq_no)]
              ELSE [r EXCEPT !.txn = Append(r.txn,
                       [seq_no |-> p.seq_no, key |-> p.key,
                        rec_type |-> rd.rec_type, pos |-> pos])]
    IN  IF ~p.ok THEN [r EXCEPT !.res = "panic"]
        ELSE IF r1.res # "Ok" THEN r1
        ELSE [r1 EXCEPT !.cur = IF p.seq_no > r1.cur THEN p.seq_no ELSE r1.cur,
                        !.offset = r.offset + rd.size]

RECURSIVE ReplayFile_SkipsBadRecord(_, _)
\* mutant of ReplayFile: every read error ends the file as its end does
ReplayFile_SkipsBadRecord(r, file_id) ==
    LET rd == ReadLogRecord(disk[file_id], r.offset)
    IN  IF r.res # "Ok" THEN r
        ELSE IF rd.res # "Ok" THEN r
        ELSE ReplayFile_SkipsBadRecord(
                 ReplayRecord(r, rd, [file_id |-> file_id, offset |-> r.offset]),
                 file_id)

RECURSIVE ReplayFile(_, _)
\* the inner loop of load_index_from_data_files over one file (db.rs 234-294)
ReplayFile(r, file_id) ==
    LET rd == ReadLogRecord(disk[file_id], r.offset)
    IN  IF r.res # "Ok" THEN r
        ELSE IF rd.res = "ReadDataFileEOF" THEN r
        ELSE IF rd.res # "Ok" THEN [r EXCEPT !.res = rd.res]
        ELSE ReplayFile(ReplayRecord(r, rd, [file_id |-> file_id, offset |-> r.offset]),
                        file_id)

RECURSIVE ReplayFiles(_, _, _)
\* the outer loop over self.file_ids, from its i-th entry on (db.rs 233-299)
ReplayFiles(r, file_ids, i) ==
    IF i > Len(file_ids) \/ r.res # "Ok" THEN r
    ELSE LET f == ReplayFile([r EXCEPT !.offset = 0], file_ids[i])
             g == IF f.res = "Ok" /\ i = Len(file_ids)
                  THEN [f EXCEPT !.writeOff = f.offset] ELSE f
         IN  ReplayFiles(g, file_ids, i + 1)

\* Engine::load_index_from_data_files
LoadIndexFromDataFiles(file_ids) ==
    IF file_ids = << >> THEN Replay0 ELSE ReplayFiles(Replay0, file_ids, 1)

(* --------------------------- initial state ---------------------------- *)

\* the locals of a call that has not begun. what, value, held and need are
\* used by the runs that follow every lock: the call the caller is in, the
\* value it was given, the guards it holds (a lock's name with "r" or "w")
\* and the records it may still append
Loc0 == [key |-> << >>, pos |-> NoPos, seq_no |-> 0, todo |-> {},
         positions |-> EmptyMap, what |-> "none", value |-> << >>,
         held |-> {}, need |-> 0]

\* batch: the records a commit that returned Ok had staged
Ret(op, key, res, value) ==
    [op |-> op, key |-> key, res |-> res, value |-> value, batch |-> EmptyMap]
NoRet == Ret("none", << >>, "none", << >>)

NoStop == [kind |-> "none", view |-> EmptyMap, index |-> EmptyMap, seqNo |-> 0,
           pc |-> [t \in Threads |-> "idle"],
           pending |-> [t \in Threads |-> EmptyMap]]

\* no iterator made yet. items, curr_index, prefix and reverse are the
\* fields of BTreeIterator; the rest is history: at (the keys listed when it
\* was made), from (the call that set the cursor last: iter, seek or
\* rewind), key (the key of that seek), before (the cursor that call found),
\* out (the pairs next has returned since) and done (next has returned None
\* since)
NoIter == [open |-> FALSE, items |-> << >>, curr_index |-> 0, prefix |-> << >>,
           reverse |-> FALSE, at |-> {}, from |-> "iter", key |-> << >>,
           before |-> 0, out |-> << >>, done |-> FALSE]

\* LogRecordType as u8
ToU8(rec_type) ==
    IF rec_type = "NORMAL" THEN NORMAL
    ELSE IF rec_type = "DELETED" THEN DELETED
    ELSE TXN_FINISHED

\* Engine::open on an empty directory: file 0 created and active, nothing
\* replayed, the sequence counter 0; no batch yet holds anything
Init ==
    /\ disk = [f \in {INITIAL_FILE_ID} |-> << >>]
    /\ status = "up"
    /\ activeId = INITIAL_FILE_ID
    /\ writeOff = 0
    /\ older = {}
    /\ index = EmptyMap
    /\ seqNo = 0
    /\ batchLock = 0
    /\ maxBatchNum \in BatchLimits
    /\ iter = NoIter
    /\ pending = [t \in Threads |-> EmptyMap]
    /\ pc = [t \in Threads |-> "idle"]
    /\ loc = [t \in Threads |-> Loc0]
    /\ ret = NoRet
    /\ logical = EmptyMap
    /\ nCommitOk = 0
    /\ nCommitErr = 0
    /\ ioErrors = 0
    /\ fresh = TRUE
    /\ nStops = 0
    /\ stop = NoStop

\* records the calls in flight may still append
Reserved ==
    LET need(t) ==
            IF pc[t] = "del_append" THEN 1
            ELSE IF pc[t] = "commit_lock" THEN Cardinality(DOMAIN pending[t]) + 1
            ELSE IF pc[t] = "commit_write" THEN Cardinality(loc[t].todo) + 1
            ELSE 0
        RECURSIVE Sum(_)
        Sum(S) == IF S = {} THEN 0
                  ELSE LET t == CHOOSE x \in S : TRUE IN need(t) + Sum(S \ {t})
    IN  Sum(Threads)

\* a call that may append n records can start
Room(n) == TotalRecords + Reserved + n <= MaxRecords

Idle(t) == status = "up" /\ pc[t] = "idle"

SetAppended(a) ==
    /\ disk' = a.disk
    /\ activeId' = a.activeId
    /\ writeOff' = a.writeOff
    /\ older' = a.older

Return(t, r) ==
    /\ pc' = [pc EXCEPT ![t] = "idle"]
    /\ loc' = [loc EXCEPT ![t] = Loc0]
    /\ ret' = r

Goto(t, label, l) ==
    /\ pc' = [pc EXCEPT ![t] = label]
    /\ loc' = [loc EXCEPT ![t] = l]
    /\ ret' = NoRet

(* ---------------------------- Engine::put ----------------------------- *)

\* the record Engine::put builds
PutRecord(key, value) ==
    Frame(ToU8("NORMAL"), LogRecordKeyWithSeq(key, NON_TRANSACTION_SEQ_NO),
          value, 0, key)

\* mutant of PutAppend: the key is not checked for emptiness
PutAppend_NoKeyCheck(t, key, value) ==
    /\ Idle(t) /\ Room(1)
    /\ LET a == AppendLogRecord(PutRecord(key, value))
       IN  /\ SetAppended(a)
           /\ Goto(t, "put_index", [Loc0 EXCEPT !.key = key, !.pos = a.pos])
    /\ logical' = MapPut(logical, key, value)
    /\ UNCHANGED <<status, index, seqNo, batchLock, maxBatchNum, iter, pending,
                   nCommitOk, nCommitErr, ioErrors, fresh, nStops, stop>>

\* Engine::put up to the return of append_log_record; an empty key is turned
\* down first (db.rs 98-100)
PutAppend(t, key, value) ==
    /\ Idle(t)
    /\ IF key = << >>
       THEN /\ Return(t, Ret("put", key, "KeyIsEmpty", << >>))
            /\ UNCHANGED <<disk, activeId, writeOff, older, logical>>
       ELSE /\ Room(1)
            /\ LET a == AppendLogRecord(PutRecord(key, value))
               IN  /\ SetAppended(a)
                   /\ Goto(t, "put_index", [Loc0 EXCEPT !.key = key, !.pos = a.pos])
            /\ logical' = MapPut(logical, key, value)
    /\ UNCHANGED <<status, index, seqNo, batchLock, maxBatchNum, iter, pending,
                   nCommitOk, nCommitErr, ioErrors, fresh, nStops, stop>>

\* Engine::put when append_log_record returns the write's error
PutAppendErr(t, key, value) ==
    /\ Idle(t) /\ ioErrors < MaxIOErrors
    /\ SetAppended(AppendLogRecordErr(PutRecord(key, value)))
    /\ Return(t, Ret("put", key, "FailedToWriteToDataFile", << >>))
    /\ ioErrors' = ioErrors + 1
    /\ UNCHANGED <<status, index, seqNo, batchLock, maxBatchNum, iter, pending,
                   logical, nCommitOk, nCommitErr, fresh, nStops, stop>>

\* Engine::put when append_log_record returns the error of opening the new
\* file of a rollover
PutAppendOpenErr(t, key, value) ==
    /\ Idle(t) /\ ioErrors < MaxIOErrors
    /\ RolloverDue(PutRecord(key, value))
    /\ SetAppended(AppendLogRecordOpenErr(PutRecord(key, value)))
    /\ Return(t, Ret("put", key, "FailedToOpenDataFile", << >>))
    /\ ioErrors' = ioErrors + 1
    /\ UNCHANGED <<status, index, seqNo, batchLock, maxBatchNum, iter, pending,
                   logical, nCommitOk, nCommitErr, fresh, nStops, stop>>

\* Engine::put from indexer.put to the return
PutIndex(t) ==
    /\ status = "up" /\ pc[t] = "put_index"
    /\ index' = MapPut(index, loc[t].key, loc[t].pos)
    /\ Return(t, Ret("put", loc[t].key, "Ok", << >>))
    /\ UNCHANGED <<disk, status, activeId, writeOff, older, seqNo, batchLock,
                   maxBatchNum, iter, pending, histVars>>

(* --------------------------- Engine::delete --------------------------- *)

\* the record Engine::delete builds: the key goes in unframed
DeleteRecord(key) == Frame(ToU8("DELETED"), key, << >>, 0, key)

\* mutant of DeleteLookup: the lookup is skipped, an absent key gets a
\* tombstone as well
DeleteLookup_NoLookup(t, key) ==
    /\ Idle(t)
    /\ IF key = << >>
       THEN Return(t, Ret("delete", key, "KeyIsEmpty", << >>))
       ELSE /\ Room(1)
            /\ Goto(t, "del_append", [Loc0 EXCEPT !.key = key])
    /\ UNCHANGED <<disk, status, engineVars, batchLock, maxBatchNum, iter, pending,
                   histVars>>

\* Engine::delete up to the lookup: an empty key is turned down (db.rs
\* 191-193), an absent key returns Ok at once
DeleteLookup(t, key) ==
    /\ Idle(t)
    /\ IF key = << >>
       THEN Return(t, Ret("delete", key, "KeyIsEmpty", << >>))
       ELSE IF key \notin DOMAIN index
       THEN Return(t, Ret("delete", key, "Ok", << >>))
       ELSE /\ Room(1)
            /\ Goto(t, "del_append", [Loc0 EXCEPT !.key = key])
    /\ UNCHANGED <<disk, status, engineVars, batchLock, maxBatchNum, iter, pending,
                   histVars>>

\* Engine::delete: append_log_record of the tombstone
DeleteAppend(t) ==
    /\ status = "up" /\ pc[t] = "del_append"
    /\ LET a == AppendLogRecord(DeleteRecord(loc[t].key))
       IN  /\ SetAppended(a)
           /\ Goto(t, "del_index", [loc[t] EXCEPT !.pos = a.pos])
    /\ logical' = MapRemove(logical, loc[t].key)
    /\ UNCHANGED <<status, index, seqNo, batchLock, maxBatchNum, iter, pending,
                   nCommitOk, nCommitErr, ioErrors, fresh, nStops, stop>>

\* Engine::delete when append_log_record returns the write's error
DeleteAppendErr(t) ==
    /\ status = "up" /\ pc[t] = "del_append" /\ ioErrors < MaxIOErrors
    /\ SetAppended(AppendLogRecordErr(DeleteRecord(loc[t].key)))
    /\ Return(t, Ret("delete", loc[t].key, "FailedToWriteToDataFile", << >>))
    /\ ioErrors' = ioErrors + 1
    /\ UNCHANGED <<status, index, seqNo, batchLock, maxBatchNum, iter, pending,
                   logical, nCommitOk, nCommitErr, fresh, nStops, stop>>

\* Engine::delete when append_log_record returns the error of opening the
\* new file of a rollover
DeleteAppendOpenErr(t) ==
    /\ status = "up" /\ pc[t] = "del_append" /\ ioErrors < MaxIOErrors
    /\ RolloverDue(DeleteRecord(loc[t].key))
    /\ SetAppended(AppendLogRecordOpenErr(DeleteRecord(loc[t].key)))
    /\ Return(t, Ret("delete", loc[t].key, "FailedToOpenDataFile", << >>))
    /\ ioErrors' = ioErrors + 1
    /\ UNCHANGED <<status, index, seqNo, batchLock, maxBatchNum, iter, pending,
                   logical, nCommitOk, nCommitErr, fresh, nStops, stop>>

\* mutant of DeleteIndex: the entry is left in the index
DeleteIndex_KeepsEntry(t) ==
    /\ status = "up" /\ pc[t] = "del_index"
    /\ Return(t, Ret("delete", loc[t].key, "Ok", << >>))
    /\ UNCHANGED <<disk, status, engineVars, batchLock, maxBatchNum, iter, pending,
                   histVars>>

\* Engine::delete from indexer.delete to the return
DeleteIndex(t) ==
    /\ status = "up" /\ pc[t] = "del_index"
    /\ index' = MapRemove(index, loc[t].key)
    /\ Return(t, Ret("delete", loc[t].key,
                     IF loc[t].key \in DOMAIN index THEN "Ok" ELSE "IndexUpdateFailed",
                     << >>))
    /\ UNCHANGED <<disk, status, activeId, writeOff, older, seqNo, batchLock,
                   maxBatchNum, iter, pending, histVars>>

(* ----------------------------- Engine::get ---------------------------- *)

\* Engine::get up to the lookup: an empty key is turned down (db.rs 175-177),
\* an absent key returns KeyNotFound
GetLookup(t, key) ==
    /\ Idle(t)
    /\ IF key = << >>
       THEN Return(t, Ret("get", key, "KeyIsEmpty", << >>))
       ELSE IF key \notin DOMAIN index
       THEN Return(t, Ret("get", key, "KeyNotFound", << >>))
       ELSE Goto(t, "get_read", [Loc0 EXCEPT !.key = key, !.pos = index[key]])
    /\ UNCHANGED <<disk, status, engineVars, batchLock, maxBatchNum, iter, pending,
                   histVars>>

\* Engine::get: get_value_by_position and the return
GetRead(t) ==
    /\ status = "up" /\ pc[t] = "get_read"
    /\ LET g == GetValueByPosition(loc[t].pos)
       IN  Return(t, Ret("get", loc[t].key, g.res, g.value))
    /\ UNCHANGED <<disk, status, engineVars, batchLock, maxBatchNum, iter, pending,
                   histVars>>

(* ----------------------------- WriteBatch ----------------------------- *)

\* mutant of BatchPut: the put is staged and also written through to the
\* engine (record appended, index updated)
BatchPut_WritesThrough(t, key, value) ==
    /\ Idle(t) /\ Room(1)
    /\ LET a == AppendLogRecord(PutRecord(key, value))
       IN  /\ SetAppended(a)
           /\ index' = MapPut(index, key, a.pos)
    /\ pending' = [pending EXCEPT ![t] =
                     MapPut(@, key, [key |-> key, value |-> value, rec_type |-> "NORMAL"])]
    /\ Return(t, Ret("batch_put", key, "Ok", << >>))
    /\ UNCHANGED <<status, seqNo, batchLock, maxBatchNum, iter, histVars>>

\* WriteBatch::put; an empty key is turned down first (batch.rs 42-44)
BatchPut(t, key, value) ==
    /\ Idle(t)
    /\ IF key = << >>
       THEN /\ pending' = pending
            /\ Return(t, Ret("batch_put", key, "KeyIsEmpty", << >>))
       ELSE /\ pending' = [pending EXCEPT ![t] =
                     MapPut(@, key, [key |-> key, value |-> value, rec_type |-> "NORMAL"])]
            /\ Return(t, Ret("batch_put", key, "Ok", << >>))
    /\ UNCHANGED <<disk, status, engineVars, batchLock, maxBatchNum, iter, histVars>>

\* mutant of BatchDelete: a DELETED record is staged whether or not the
\* index holds the key
BatchDelete_AlwaysStages(t, key) ==
    /\ Idle(t)
    /\ IF key = << >>
       THEN /\ pending' = pending
            /\ Return(t, Ret("batch_delete", key, "KeyIsEmpty", << >>))
       ELSE /\ pending' = [pending EXCEPT ![t] =
                     MapPut(@, key, [key |-> key, value |-> << >>,
                                     rec_type |-> "DELETED"])]
            /\ Return(t, Ret("batch_delete", key, "Ok", << >>))
    /\ UNCHANGED <<disk, status, engineVars, batchLock, maxBatchNum, iter, histVars>>

\* WriteBatch::delete; an empty key is turned down first (batch.rs 56-58)
BatchDelete(t, key) ==
    /\ Idle(t)
    /\ IF key = << >>
       THEN /\ pending' = pending
            /\ Return(t, Ret("batch_delete", key, "KeyIsEmpty", << >>))
       ELSE /\ pending' = [pending EXCEPT ![t] =
                     IF key \notin DOMAIN index
                     THEN MapRemove(@, key)
                     ELSE MapPut(@, key, [key |-> key, value |-> << >>,
                                          rec_type |-> "DELETED"])]
            /\ Return(t, Ret("batch_delete", key, "Ok", << >>))
    /\ UNCHANGED <<disk, status, engineVars, batchLock, maxBatchNum, iter, histVars>>

\* mutant of CommitCheck: a batch of exactly max_batch_num entries is turned
\* down as well
CommitCheck_RejectsFull(t) ==
    /\ Idle(t)
    /\ IF Cardinality(DOMAIN pending[t]) = 0
       THEN Return(t, Ret("commit", << >>, "Ok", << >>))
       ELSE IF Cardinality(DOMAIN pending[t]) >= maxBatchNum
       THEN Return(t, Ret("commit", << >>, "ExceedMaxBatchNum", << >>))
       ELSE /\ Room(Cardinality(DOMAIN pending[t]) + 1)
            /\ Goto(t, "commit_lock", Loc0)
    /\ UNCHANGED <<disk, status, engineVars, batchLock, maxBatchNum, iter, pending,
                   histVars>>

\* mutant of CommitCheck: the sequence number is taken before the size
\* checks, so a commit that is turned down has moved the counter
CommitCheck_CountsFirst(t) ==
    /\ Idle(t)
    /\ IF Cardinality(DOMAIN pending[t]) = 0
       THEN Return(t, Ret("commit", << >>, "Ok", << >>)) /\ seqNo' = seqNo
       ELSE IF Cardinality(DOMAIN pending[t]) > maxBatchNum
       THEN Return(t, Ret("commit", << >>, "ExceedMaxBatchNum", << >>))
            /\ seqNo' = seqNo + 1
       ELSE /\ Room(Cardinality(DOMAIN pending[t]) + 1)
            /\ Goto(t, "commit_lock", Loc0)
            /\ seqNo' = seqNo
    /\ UNCHANGED <<disk, status, activeId, writeOff, older, index, batchLock,
                   maxBatchNum, iter, pending, histVars>>

\* mutant of CommitCheck: an empty staging map is committed like any other
CommitCheck_CommitsEmpty(t) ==
    /\ Idle(t)
    /\ IF Cardinality(DOMAIN pending[t]) > maxBatchNum
       THEN Return(t, Ret("commit", << >>, "ExceedMaxBatchNum", << >>))
       ELSE /\ Room(Cardinality(DOMAIN pending[t]) + 1)
            /\ Goto(t, "commit_lock", Loc0)
    /\ UNCHANGED <<disk, status, engineVars, batchLock, maxBatchNum, iter, pending,
                   histVars>>

\* WriteBatch::commit up to the two size checks (batch.rs 77-84)
CommitCheck(t) ==
    /\ Idle(t)
    /\ IF Cardinality(DOMAIN pending[t]) = 0
       THEN Return(t, Ret("commit", << >>, "Ok", << >>))
       ELSE IF Cardinality(DOMAIN pending[t]) > maxBatchNum
       THEN Return(t, Ret("commit", << >>, "ExceedMaxBatchNum", << >>))
       ELSE /\ Room(Cardinality(DOMAIN pending[t]) + 1)
            /\ Goto(t, "commit_lock", Loc0)
    /\ UNCHANGED <<disk, status, engineVars, batchLock, maxBatchNum, iter, pending,
                   histVars>>

\* mutant of CommitLock: the sequence number is taken without waiting for
\* batch_commit_lock
CommitLock_NoMutex(t) ==
    /\ status = "up" /\ pc[t] = "commit_lock"
    /\ batchLock' = t
    /\ seqNo' = seqNo + 1
    /\ Goto(t, "commit_write",
            [Loc0 EXCEPT !.seq_no = seqNo + 1, !.todo = DOMAIN pending[t]])
    /\ UNCHANGED <<disk, status, activeId, writeOff, older, index, maxBatchNum, iter,
                   pending, histVars>>

\* WriteBatch::commit: batch_commit_lock.lock() and the fetch_add (batch.rs 86-92)
CommitLock(t) ==
    /\ status = "up" /\ pc[t] = "commit_lock"
    /\ batchLock = 0
    /\ batchLock' = t
    /\ seqNo' = seqNo + 1
    /\ Goto(t, "commit_write",
            [Loc0 EXCEPT !.seq_no = seqNo + 1, !.todo = DOMAIN pending[t]])
    /\ UNCHANGED <<disk, status, activeId, writeOff, older, index, maxBatchNum, iter,
                   pending, histVars>>

\* the record commit builds for a staged item: the value field is filled
\* from item.key (batch.rs 95-99)
CommitRecord(item, seq_no) ==
    Frame(ToU8(item.rec_type), LogRecordKeyWithSeq(item.key, seq_no), item.key,
          seq_no, item.key)

\* the terminator record of a commit (batch.rs 104-108)
FinishRecord(seq_no) ==
    Frame(ToU8("TXN_FINISHED"), LogRecordKeyWithSeq(TXN_FIN_KEY, seq_no), << >>,
          seq_no, TXN_FIN_KEY)

\* mutant of CommitWrite: the index is updated as each staged record is
\* appended
CommitWrite_IndexesAtOnce(t, key) ==
    /\ status = "up" /\ pc[t] = "commit_write"
    /\ key \in loc[t].todo
    /\ LET a == AppendLogRecord(CommitRecord(pending[t][key], loc[t].seq_no))
       IN  /\ SetAppended(a)
           /\ index' = IF pending[t][key].rec_type = "NORMAL"
                       THEN MapPut(index, key, a.pos)
                       ELSE MapRemove(index, key)
           /\ Goto(t, "commit_write",
                   [loc[t] EXCEPT !.todo = @ \ {key},
                                  !.positions = MapPut(@, key, a.pos)])
    /\ UNCHANGED <<status, seqNo, batchLock, maxBatchNum, iter, pending, histVars>>

\* WriteBatch::commit: one turn of the loop appending the staged records;
\* the HashMap yields them in any order
CommitWrite(t, key) ==
    /\ status = "up" /\ pc[t] = "commit_write"
    /\ key \in loc[t].todo
    /\ LET a == AppendLogRecord(CommitRecord(pending[t][key], loc[t].seq_no))
       IN  /\ SetAppended(a)
           /\ Goto(t, "commit_write",
                   [loc[t] EXCEPT !.todo = @ \ {key},
                                  !.positions = MapPut(@, key, a.pos)])
    /\ UNCHANGED <<status, index, seqNo, batchLock, maxBatchNum, iter, pending, histVars>>

\* WriteBatch::commit when an append of a staged record returns the error:
\* the guards are dropped, the staged records stay
CommitWriteErr(t, key) ==
    /\ status = "up" /\ pc[t] = "commit_write" /\ ioErrors < MaxIOErrors
    /\ key \in loc[t].todo
    /\ SetAppended(AppendLogRecordErr(CommitRecord(pending[t][key], loc[t].seq_no)))
    /\ Return(t, Ret("commit", << >>, "FailedToWriteToDataFile", << >>))
    /\ batchLock' = 0
    /\ nCommitErr' = nCommitErr + 1
    /\ ioErrors' = ioErrors + 1
    /\ UNCHANGED <<status, index, seqNo, maxBatchNum, iter, pending, logical,
                   nCommitOk, fresh, nStops, stop>>

\* the staged records of a batch applied to a key -> value map
ApplyStaged(m, staged) ==
    [k \in (DOMAIN m \cup {x \in DOMAIN staged : staged[x].rec_type = "NORMAL"})
           \ {x \in DOMAIN staged : staged[x].rec_type = "DELETED"} |->
        IF k \in DOMAIN staged THEN staged[k].value ELSE m[k]]

\* WriteBatch::commit: the append of the terminator (batch.rs 104-109)
CommitFinish(t) ==
    /\ status = "up" /\ pc[t] = "commit_write"
    /\ loc[t].todo = {}
    /\ LET a == AppendLogRecord(FinishRecord(loc[t].seq_no))
       IN  SetAppended(a)
    /\ Goto(t, "commit_sync", loc[t])
    /\ logical' = ApplyStaged(logical, pending[t])
    /\ UNCHANGED <<status, index, seqNo, batchLock, maxBatchNum, iter, pending,
                   nCommitOk, nCommitErr, ioErrors, fresh, nStops, stop>>

\* WriteBatch::commit when the append of the terminator returns the error
CommitFinishErr(t) ==
    /\ status = "up" /\ pc[t] = "commit_write" /\ ioErrors < MaxIOErrors
    /\ loc[t].todo = {}
    /\ SetAppended(AppendLogRecordErr(FinishRecord(loc[t].seq_no)))
    /\ Return(t, Ret("commit", << >>, "FailedToWriteToDataFile", << >>))
    /\ batchLock' = 0
    /\ nCommitErr' = nCommitErr + 1
    /\ ioErrors' = ioErrors + 1
    /\ UNCHANGED <<status, index, seqNo, maxBatchNum, iter, pending, logical,
                   nCommitOk, fresh, nStops, stop>>

\* WriteBatch::commit: engine.sync() succeeding (batch.rs 111-113)
CommitSync(t) ==
    /\ status = "up" /\ pc[t] = "commit_sync"
    /\ Goto(t, "commit_index", [loc[t] EXCEPT !.todo = DOMAIN pending[t]])
    /\ UNCHANGED <<disk, status, engineVars, batchLock, maxBatchNum, iter, pending,
                   histVars>>

\* WriteBatch::commit when engine.sync() returns FailedSynDataFile
CommitSyncErr(t) ==
    /\ status = "up" /\ pc[t] = "commit_sync" /\ ioErrors < MaxIOErrors
    /\ Return(t, Ret("commit", << >>, "FailedSynDataFile", << >>))
    /\ batchLock' = 0
    /\ nCommitErr' = nCommitErr + 1
    /\ ioErrors' = ioErrors + 1
    /\ UNCHANGED <<disk, status, engineVars, maxBatchNum, iter, pending, logical,
                   nCommitOk, fresh, nStops, stop>>

\* WriteBatch::commit: one turn of the loop updating the index (batch.rs 116-123)
CommitIndex(t, key) ==
    /\ status = "up" /\ pc[t] = "commit_index"
    /\ key \in loc[t].todo
    /\ index' = IF pending[t][key].rec_type = "NORMAL"
                THEN MapPut(index, key, loc[t].positions[key])
                ELSE MapRemove(index, key)
    /\ Goto(t, "commit_index", [loc[t] EXCEPT !.todo = @ \ {key}])
    /\ UNCHANGED <<disk, status, activeId, writeOff, older, seqNo, batchLock,
                   maxBatchNum, iter, pending, histVars>>

\* mutant of CommitDone: pending_writes is not cleared
CommitDone_KeepsStaged(t) ==
    /\ status = "up" /\ pc[t] = "commit_index"
    /\ loc[t].todo = {}
    /\ pending' = pending
    /\ batchLock' = 0
    /\ nCommitOk' = nCommitOk + 1
    /\ Return(t, [Ret("commit", << >>, "Ok", << >>) EXCEPT !.batch = pending[t]])
    /\ UNCHANGED <<disk, status, engineVars, maxBatchNum, iter, logical, nCommitErr,
                   ioErrors, fresh, nStops, stop>>

\* WriteBatch::commit: pending_writes.clear() and the return (batch.rs 125-126)
CommitDone(t) ==
    /\ status = "up" /\ pc[t] = "commit_index"
    /\ loc[t].todo = {}
    /\ pending' = [pending EXCEPT ![t] = EmptyMap]
    /\ batchLock' = 0
    /\ nCommitOk' = nCommitOk + 1
    /\ Return(t, [Ret("commit", << >>, "Ok", << >>) EXCEPT !.batch = pending[t]])
    /\ UNCHANGED <<disk, status, engineVars, maxBatchNum, iter, logical, nCommitErr,
                   ioErrors, fresh, nStops, stop>>

(* ----------------------------- iterators ------------------------------ *)

\* keys "a", "ab" and "b" for the runs with an iterator, the value put for
\* them, and the prefixes offered in IteratorOptions
IterKeys == {<<97>>, <<97, 98>>, <<98>>}
IterValues == {<<120>>}
IterPrefixes == {<< >>, <<97>>, <<97, 98>>, <<98>>}

RECURSIVE LexLess(_, _)
\* Ord of Vec<u8>, the order of the BTreeMap: byte by byte, a proper prefix
\* first
LexLess(a, b) ==
    IF b = << >> THEN FALSE
    ELSE IF a = << >> THEN TRUE
    ELSE IF a[1] # b[1] THEN a[1] < b[1]
    ELSE LexLess(Tail(a), Tail(b))

RECURSIVE TreeItems(_)
\* read_guard.iter() over the entries with the keys S: (key, pos) in key order
TreeItems(S) ==
    IF S = {} THEN << >>
    ELSE LET m == CHOOSE x \in S : \A y \in S \ {x} : LexLess(x, y)
         IN  <<[key |-> m, pos |-> index[m]]>> \o TreeItems(S \ {m})

\* Vec::reverse
Reverse(q) == [i \in 1..Len(q) |-> q[Len(q) + 1 - i]]

\* slice::starts_with
StartsWith(key, prefix) ==
    Len(prefix) <= Len(key) /\ SubSeq(key, 1, Len(prefix)) = prefix

\* mutant of BTreeNext: the prefix is not looked at
BTreeNext_AnyKey(items, curr_index, prefix) ==
    IF curr_index >= Len(items)
    THEN [found |-> FALSE, curr_index |-> curr_index, item |-> [key |-> << >>, pos |-> NoPos]]
    ELSE [found |-> TRUE, curr_index |-> curr_index + 1, item |-> items[curr_index + 1]]

RECURSIVE BTreeNext(_, _, _)
\* BTreeIterator::next: the first item from curr_index on that the prefix
\* admits, and curr_index afterwards (indices count from 0 as in the Vec)
BTreeNext(items, curr_index, prefix) ==
    IF curr_index >= Len(items)
    THEN [found |-> FALSE, curr_index |-> curr_index, item |-> [key |-> << >>, pos |-> NoPos]]
    ELSE IF prefix = << >> \/ StartsWith(items[curr_index + 1].key, prefix)
    THEN [found |-> TRUE, curr_index |-> curr_index + 1, item |-> items[curr_index + 1]]
    ELSE BTreeNext(items, curr_index + 1, prefix)

\* Engine::iter: Btree::iterator copies the entries of the tree into a Vec,
\* reversed when opts.reverse is set
EngineIter(t, prefix, reverse) ==
    /\ Idle(t)
    /\ iter' = [open |-> TRUE,
                items |-> IF reverse THEN Reverse(TreeItems(DOMAIN index))
                          ELSE TreeItems(DOMAIN index),
                curr_index |-> 0, prefix |-> prefix, reverse |-> reverse,
                at |-> ListKeys, from |-> "iter", key |-> << >>, before |-> 0,
                out |-> << >>, done |-> FALSE]
    /\ Return(t, Ret("iter", prefix, "Ok", << >>))
    /\ UNCHANGED <<disk, status, engineVars, batchLock, maxBatchNum, pending,
                   histVars>>

\* mutant of IterNext: the items are taken from the tree as it is now, not
\* from the Vec copied when the iterator was made
IterNext_ReadsLiveTree(t) ==
    /\ Idle(t) /\ iter.open
    /\ LET live == IF iter.reverse THEN Reverse(TreeItems(DOMAIN index))
                   ELSE TreeItems(DOMAIN index)
           n == BTreeNext(live, iter.curr_index, iter.prefix)
           g == GetValueByPosition(n.item.pos)
       IN  IF ~n.found
           THEN /\ iter' = [iter EXCEPT !.curr_index = n.curr_index, !.done = TRUE]
                /\ Return(t, Ret("next", << >>, "None", << >>))
                /\ status' = status
           ELSE IF g.res # "Ok"
           THEN /\ iter' = [iter EXCEPT !.curr_index = n.curr_index]
                /\ Return(t, Ret("next", n.item.key, "panic", << >>))
                /\ status' = "panic"
           ELSE /\ iter' = [iter EXCEPT !.curr_index = n.curr_index,
                                        !.out = Append(@, [key |-> n.item.key,
                                                           value |-> g.value])]
                /\ Return(t, Ret("next", n.item.key, "Some", g.value))
                /\ status' = status
    /\ UNCHANGED <<disk, engineVars, batchLock, maxBatchNum, pending, histVars>>

\* Iterator::next: the index iterator's next, then get_value_by_position of
\* the position found; its Err ends in the panic of expect
IterNext(t) ==
    /\ Idle(t) /\ iter.open
    /\ LET n == BTreeNext(iter.items, iter.curr_index, iter.prefix)
           g == GetValueByPosition(n.item.pos)
       IN  IF ~n.found
           THEN /\ iter' = [iter EXCEPT !.curr_index = n.curr_index, !.done = TRUE]
                /\ Return(t, Ret("next", << >>, "None", << >>))
                /\ status' = status
           ELSE IF g.res # "Ok"
           THEN /\ iter' = [iter EXCEPT !.curr_index = n.curr_index]
                /\ Return(t, Ret("next", n.item.key, "panic", << >>))
                /\ status' = "panic"
           ELSE /\ iter' = [iter EXCEPT !.curr_index = n.curr_index,
                                        !.out = Append(@, [key |-> n.item.key,
                                                           value |-> g.value])]
                /\ Return(t, Ret("next", n.item.key, "Some", g.value))
                /\ status' = status
    /\ UNCHANGED <<disk, engineVars, batchLock, maxBatchNum, pending, histVars>>

\* Ord::cmp of two keys
Cmp(a, b) ==
    IF a = b THEN "Equal" ELSE IF LexLess(a, b) THEN "Less" ELSE "Greater"

\* Ordering::reverse
CmpReverse(c) ==
    IF c = "Less" THEN "Greater" ELSE IF c = "Greater" THEN "Less" ELSE c

RECURSIVE BinarySearchBy(_, _, _, _, _)
\* slice::binary_search_by over items[left..right) with the comparator of
\* BTreeIterator::seek; the index found, or else the insertion point, which
\* is what unwrap_or_else(|pos| pos) makes of either
BinarySearchBy(items, key, reverse, left, right) ==
    IF left >= right THEN left
    ELSE LET mid == left + (right - left) \div 2
             c   == IF reverse THEN CmpReverse(Cmp(items[mid + 1].key, key))
                    ELSE Cmp(items[mid + 1].key, key)
         IN  IF c = "Equal" THEN mid
             ELSE IF c = "Less"
             THEN BinarySearchBy(items, key, reverse, mid + 1, right)
             ELSE BinarySearchBy(items, key, reverse, left, mid)

\* mutant of BTreeSeek: the comparator is not flipped for a reverse iterator
BTreeSeek_NoFlip(items, key, reverse) ==
    BinarySearchBy(items, key, FALSE, 0, Len(items))

\* BTreeIterator::seek: the new curr_index
BTreeSeek(items, key, reverse) ==
    BinarySearchBy(items, key, reverse, 0, Len(items))

\* Iterator::seek
IterSeek(t, key) ==
    /\ Idle(t) /\ iter.open
    /\ iter' = [iter EXCEPT !.curr_index = BTreeSeek(iter.items, key, iter.reverse),
                            !.from = "seek", !.key = key,
                            !.before = iter.curr_index,
                            !.out = << >>, !.done = FALSE]
    /\ Return(t, Ret("seek", key, "Ok", << >>))
    /\ UNCHANGED <<disk, status, engineVars, batchLock, maxBatchNum, pending,
                   histVars>>

\* mutant of IterRewind: the cursor stays where it is
IterRewind_KeepsCursor(t) ==
    /\ Idle(t) /\ iter.open
    /\ iter' = [iter EXCEPT !.from = "rewind", !.key = << >>,
                            !.before = iter.curr_index,
                            !.out = << >>, !.done = FALSE]
    /\ Return(t, Ret("rewind", << >>, "Ok", << >>))
    /\ UNCHANGED <<disk, status, engineVars, batchLock, maxBatchNum, pending,
                   histVars>>

\* Iterator::rewind
IterRewind(t) ==
    /\ Idle(t) /\ iter.open
    /\ iter' = [iter EXCEPT !.curr_index = 0,
                            !.from = "rewind", !.key = << >>,
                            !.before = iter.curr_index,
                            !.out = << >>, !.done = FALSE]
    /\ Return(t, Ret("rewind", << >>, "Ok", << >>))
    /\ UNCHANGED <<disk, status, engineVars, batchLock, maxBatchNum, pending,
                   histVars>>

(* ----------------------- close, crash and open ------------------------ *)

\* what the running engine answers for every key
View == [k \in Keys |-> EngineGet(k)]

CommitPcs == {"commit_lock", "commit_write", "commit_sync", "commit_index"}

\* the engine is gone: its memory and every batch bound to it; stop keeps
\* what the engine answered, and the batches whose commit was in flight
Stopped(kind) ==
    /\ status' = kind
    /\ stop' = [kind |-> kind, view |-> View, index |-> index, seqNo |-> seqNo,
                pc |-> pc,
                pending |-> [t \in Threads |->
                               IF pc[t] \in CommitPcs THEN pending[t] ELSE EmptyMap]]
    /\ activeId' = INITIAL_FILE_ID
    /\ writeOff' = 0
    /\ older' = {}
    /\ index' = EmptyMap
    /\ seqNo' = 0
    /\ batchLock' = 0
    /\ pending' = [t \in Threads |-> EmptyMap]
    /\ pc' = [t \in Threads |-> "idle"]
    /\ loc' = [t \in Threads |-> Loc0]
    /\ ret' = NoRet
    /\ fresh' = FALSE
    /\ nStops' = nStops + 1
    /\ UNCHANGED <<disk, maxBatchNum, iter, logical, nCommitOk, nCommitErr, ioErrors>>

\* Engine::close with no call in flight, and the engine dropped
Close ==
    /\ status = "up" /\ nStops < MaxStops
    /\ \A t \in Threads : pc[t] = "idle"
    /\ Stopped("closed")

\* the process dies inside a call; what was appended stays in the files
Crash ==
    /\ status = "up" /\ nStops < MaxStops
    /\ \E t \in Threads : pc[t] # "idle"
    /\ Stopped("crashed")

\* Engine::open on the directory as it is
Open ==
    /\ status \in {"closed", "crashed"}
    /\ LET file_ids == LoadDataFiles
           r == LoadIndexFromDataFiles(file_ids)
       IN  /\ status' = IF r.res = "Ok" THEN "up" ELSE r.res
           /\ disk' = IF file_ids = << >>
                      THEN [f \in {INITIAL_FILE_ID} |-> << >>] ELSE disk
           /\ IF r.res = "Ok"
              THEN /\ activeId' = IF file_ids = << >> THEN INITIAL_FILE_ID
                                  ELSE file_ids[1]
                   /\ older' = {file_ids[i] : i \in 2..Len(file_ids)}
                   /\ writeOff' = r.writeOff
                   /\ index' = r.index
                   /\ seqNo' = r.cur
              ELSE UNCHANGED engineVars
    /\ UNCHANGED <<batchLock, maxBatchNum, iter, pending, pc, loc, ret, histVars>>

(* --------------------------- specifications --------------------------- *)

\* the steps of one caller's Engine::get
StepRead(t) ==
    \/ \E k \in Keys : GetLookup(t, k)
    \/ GetRead(t)

\* the steps of one caller's Engine::put and Engine::delete
StepPutDelete(t) ==
    \/ \E k \in Keys, v \in Values : PutAppend(t, k, v)
    \/ PutIndex(t)
    \/ \E k \in Keys : DeleteLookup(t, k)
    \/ DeleteAppend(t)
    \/ DeleteIndex(t)

\* the steps of one caller's WriteBatch calls
StepBatch(t) ==
    \/ \E k \in Keys, v \in BatchValues : BatchPut(t, k, v)
    \/ \E k \in Keys : BatchDelete(t, k)
    \/ CommitCheck(t)
    \/ CommitLock(t)
    \/ \E k \in Keys : CommitWrite(t, k)
    \/ CommitFinish(t)
    \/ CommitSync(t)
    \/ \E k \in Keys : CommitIndex(t, k)
    \/ CommitDone(t)

\* the steps of one caller in which a write or a sync fails
StepErr(t) ==
    \/ \E k \in Keys, v \in Values : PutAppendErr(t, k, v)
    \/ DeleteAppendErr(t)
    \/ \E k \in Keys : CommitWriteErr(t, k)
    \/ CommitFinishErr(t)
    \/ CommitSyncErr(t)

\* one caller on one engine, every write and sync succeeding
Next == StepPutDelete(1) \/ StepBatch(1) \/ StepRead(1)

Spec == Init /\ [][Next]_vars

\* one caller on one engine, with writes and syncs that may fail
NextIO == StepPutDelete(1) \/ StepBatch(1) \/ StepErr(1)

SpecIO == Init /\ [][NextIO]_vars

\* one caller on an engine that is then closed or killed, and opened again
NextReopen ==
    \/ nStops = 0 /\ (StepPutDelete(1) \/ StepBatch(1))
    \/ Close
    \/ Crash
    \/ Open

SpecReopen == Init /\ [][NextReopen]_vars

\* two callers, each with a batch of its own, on one engine
NextConc == \E t \in Threads : StepBatch(t)

SpecConc == Init /\ [][NextConc]_vars

\* one caller's puts and deletes on an engine that is closed or killed and
\* opened again, and written to after that
NextReopenWrite ==
    \/ StepPutDelete(1)
    \/ Close
    \/ Crash
    \/ Open

SpecReopenWrite == Init /\ [][NextReopenWrite]_vars

\* two callers issuing puts and deletes on one engine
NextConcPut == \E t \in Threads : StepPutDelete(t)

SpecConcPut == Init /\ [][NextConcPut]_vars

\* the five calls that take a key, made with the empty key
StepEmptyKey(t) ==
    \/ \E v \in Values : PutAppend(t, << >>, v)
    \/ DeleteLookup(t, << >>)
    \/ GetLookup(t, << >>)
    \/ \E v \in BatchValues : BatchPut(t, << >>, v)
    \/ BatchDelete(t, << >>)

\* one caller on one engine whose calls may pass the empty key
NextEmptyKey == Next \/ StepEmptyKey(1)

SpecEmptyKey == Init /\ [][NextEmptyKey]_vars

\* one caller that puts and deletes the keys "a", "ab" and "b", makes
\* iterators and steps them
NextIter ==
    \/ \E k \in IterKeys, v \in IterValues : PutAppend(1, k, v)
    \/ PutIndex(1)
    \/ \E k \in IterKeys : DeleteLookup(1, k)
    \/ DeleteAppend(1)
    \/ DeleteIndex(1)
    \/ \E p \in IterPrefixes, r \in BOOLEAN : EngineIter(1, p, r)
    \/ IterNext(1)

SpecIter == Init /\ [][NextIter]_vars

\* the prefixes offered to the iterator that runs beside a writer
SnapshotPrefixes == {<< >>, <<97>>}

\* caller 1 makes one iterator and steps it while caller 2 puts, deletes and
\* commits batches
NextSnapshot ==
    \/ ~iter.open /\ \E p \in SnapshotPrefixes, r \in BOOLEAN : EngineIter(1, p, r)
    \/ IterNext(1)
    \/ \E k \in Keys, v \in IterValues : PutAppend(2, k, v)
    \/ PutIndex(2)
    \/ \E k \in Keys : DeleteLookup(2, k)
    \/ DeleteAppend(2)
    \/ DeleteIndex(2)
    \/ StepBatch(2)

SpecSnapshot == Init /\ [][NextSnapshot]_vars

\* the keys offered to seek: the three keys put, and keys below, between
\* and above them
SeekKeys == IterKeys \cup {<<96>>, <<97, 97>>, <<97, 99>>, <<99>>}

\* one caller that puts the keys "a", "ab" and "b", then makes an iterator
\* and steps, seeks and rewinds it
NextSeek ==
    \/ ~iter.open /\ \E k \in IterKeys, v \in IterValues : PutAppend(1, k, v)
    \/ PutIndex(1)
    \/ ~iter.open /\ \E p \in IterPrefixes, r \in BOOLEAN : EngineIter(1, p, r)
    \/ IterNext(1)
    \/ \E k \in SeekKeys : IterSeek(1, k)
    \/ IterRewind(1)

SpecSeek == Init /\ [][NextSeek]_vars

\* caller 1 reads, with get and with an iterator, while caller 2 puts and
\* deletes and so rolls the active file over
NextConcRead ==
    \/ StepRead(1)
    \/ ~iter.open /\ \E r \in BOOLEAN : EngineIter(1, << >>, r)
    \/ IterNext(1)
    \/ StepPutDelete(2)

SpecConcRead == Init /\ [][NextConcRead]_vars

\* a value of data_file_size bytes: its record is longer than a data file
\* is meant to be
BigValue == [i \in 1..DataFileSize |-> 120]

\* one caller's puts, of short values and of the long one, and deletes
NextBig ==
    \/ \E k \in Keys, v \in Values \cup {BigValue} : PutAppend(1, k, v)
    \/ PutIndex(1)
    \/ \E k \in Keys : DeleteLookup(1, k)
    \/ DeleteAppend(1)
    \/ DeleteIndex(1)

SpecBig == Init /\ [][NextBig]_vars

\* one caller's puts and deletes, with rollovers whose new file may fail to
\* open, on an engine that is closed or killed and opened again
NextOpenErr ==
    \/ StepPutDelete(1)
    \/ \E k \in Keys, v \in Values : PutAppendOpenErr(1, k, v)
    \/ DeleteAppendOpenErr(1)
    \/ Close
    \/ Crash
    \/ Open

SpecOpenErr == Init /\ [][NextOpenErr]_vars

\* one bit of a stored value is flipped while no engine is open: the record
\* keeps its length and its stored checksum
FlipBit(value) == [i \in 1..Len(value) |-> IF i = 1 THEN
                       (IF value[i] % 2 = 0 THEN value[i] + 1 ELSE value[i] - 1)
                       ELSE value[i]]

Corrupt(f, i) ==
    /\ status \in {"closed", "crashed"}
    /\ ioErrors < MaxIOErrors
    /\ disk[f][i].value # << >>
    /\ disk' = [disk EXCEPT ![f][i].value = FlipBit(@)]
    /\ ioErrors' = ioErrors + 1
    /\ UNCHANGED <<status, engineVars, batchLock, maxBatchNum, pending, iter,
                   pc, loc, ret, logical, nCommitOk, nCommitErr, fresh, nStops,
                   stop>>

\* one caller's puts and deletes on an engine that is closed or killed, has
\* one stored value damaged or not, and is opened again
NextCorrupt ==
    \/ StepPutDelete(1)
    \/ Close
    \/ Crash
    \/ \E f \in DOMAIN disk : \E i \in 1..Len(disk[f]) : Corrupt(f, i)
    \/ Open

SpecCorrupt == Init /\ [][NextCorrupt]_vars

\* caller 1 reads while caller 2 stages and commits a batch
NextConcCommit ==
    \/ StepRead(1)
    \/ StepBatch(2)

SpecConcCommit == Init /\ [][NextConcCommit]_vars

\* how often the engine of SpecTorn is stopped
MaxRestarts == 2

\* one caller's batches on an engine that is closed or killed and opened
\* again, up to MaxRestarts times
NextTorn ==
    \/ StepBatch(1)
    \/ /\ status = "up" /\ nStops < MaxRestarts
       /\ \A t \in Threads : pc[t] = "idle"
       /\ Stopped("closed")
    \/ /\ status = "up" /\ nStops < MaxRestarts
       /\ \E t \in Threads : pc[t] # "idle"
       /\ Stopped("crashed")
    \/ Open

SpecTorn == Init /\ [][NextTorn]_vars

\* caller 1 puts while caller 2 stages and commits a batch, on an engine
\* that is then closed and opened again
NextOverlap ==
    \/ nStops = 0 /\ \E k \in Keys, v \in Values : PutAppend(1, k, v)
    \/ nStops = 0 /\ PutIndex(1)
    \/ nStops = 0 /\ StepBatch(2)
    \/ Close
    \/ Open

SpecOverlap == Init /\ [][NextOverlap]_vars

(* ------------------------------- locks -------------------------------- *)

\* the keys and the value of the runs that follow every lock, and how many
\* records they append
LockKeys == {<<97>>}
LockValue == <<120>>
LockRecords == 3

\* mutant of ReadLockOrder: the older-files lock is taken first
ReadLockOrder_OlderFirst == <<"older", "active">>

\* the order in which get_value_by_position takes its read locks (db.rs 153-154)
ReadLockOrder == <<"active", "older">>

\* the lock a caller is parked on for writing: the active file's in
\* append_log_record and sync, the older-files map's in a rollover, the
\* tree's in Btree::put and Btree::delete, the index iterator's in next
WantsWrite(u, l) ==
    \/ l = "active" /\ pc[u] \in {"l_append", "l_sync"}
    \/ l = "older" /\ pc[u] = "l_append_o"
    \/ l = "tree" /\ pc[u] = "l_index"
    \/ l = "iter" /\ pc[u] = "l_iter"
    \/ l = "pending" /\ pc[u] = "l_pending"

\* parking_lot's Mutex::lock and RwLock::write return: nobody else holds the
\* lock
CanWrite(t, l) ==
    \A u \in Threads \ {t} : loc[u].held \cap {<<l, "r">>, <<l, "w">>} = {}

\* parking_lot's RwLock::read returns: nobody else holds the lock for
\* writing, and no writer is parked on it (readers queue behind writers)
CanRead(t, l) ==
    \A u \in Threads \ {t} : <<l, "w">> \notin loc[u].held /\ ~WantsWrite(u, l)

\* records the calls in flight may still append
LockReserved ==
    LET RECURSIVE Sum(_)
        Sum(S) == IF S = {} THEN 0
                  ELSE LET t == CHOOSE x \in S : TRUE
                       IN  loc[t].need + Sum(S \ {t})
    IN  Sum(Threads)

LockRoom(n) == TotalRecords + LockReserved + n <= LockRecords

\* what these runs never change
LockFrame == UNCHANGED <<maxBatchNum, nCommitErr, ioErrors, fresh, nStops, stop>>

\* a call begins: nothing is locked yet. put goes to append_log_record, get
\* and delete to the lookup, sync to the active file, next to the index
\* iterator, the calls of the one WriteBatch to its staging mutex. An empty
\* key is turned down at once.
LockCall(t, what, key) ==
    /\ Idle(t)
    /\ what = "next" => iter.open
    /\ LET need == IF what \in {"put", "delete"} THEN 1
                   ELSE IF what = "commit" THEN Cardinality(LockKeys) + 1
                   ELSE 0
           label == IF what = "put" THEN "l_append"
                    ELSE IF what \in {"get", "delete"} THEN "l_lookup"
                    ELSE IF what = "sync" THEN "l_sync"
                    ELSE IF what = "next" THEN "l_iter"
                    ELSE "l_pending"
       IN  IF key = << >> /\ what \in {"put", "get", "delete", "batch_put", "batch_delete"}
           THEN Return(t, Ret(what, key, "KeyIsEmpty", << >>))
           ELSE /\ LockRoom(need)
                /\ Goto(t, label, [Loc0 EXCEPT !.what = what, !.key = key,
                                               !.value = LockValue, !.need = need])
    /\ UNCHANGED <<disk, status, engineVars, batchLock, pending, iter, logical,
                   nCommitOk>>
    /\ LockFrame

\* the record the caller is about to append
LockRecord(t) ==
    IF loc[t].what = "put" THEN PutRecord(loc[t].key, loc[t].value)
    ELSE IF loc[t].what = "delete" THEN DeleteRecord(loc[t].key)
    ELSE IF loc[t].key = TXN_FIN_KEY THEN FinishRecord(loc[t].seq_no)
    ELSE CommitRecord(pending[1][loc[t].key], loc[t].seq_no)

\* append_log_record has written at a.pos and dropped its guards: put and
\* delete go on to the index, commit to its next staged record, then to the
\* terminator, then to the sync
AfterAppend(t, a) ==
    LET l == [loc[t] EXCEPT !.held = @ \ {<<"active", "w">>, <<"older", "w">>},
                            !.need = @ - 1]
    IN  IF loc[t].what \in {"put", "delete"}
        THEN /\ Goto(t, "l_index", [l EXCEPT !.pos = a.pos])
             /\ logical' = IF loc[t].what = "put"
                           THEN MapPut(logical, loc[t].key, loc[t].value)
                           ELSE MapRemove(logical, loc[t].key)
        ELSE IF loc[t].key = TXN_FIN_KEY
        THEN /\ Goto(t, "l_sync", [l EXCEPT !.todo = DOMAIN pending[1]])
             /\ logical' = ApplyStaged(logical, pending[1])
        ELSE /\ logical' = logical
             /\ LET todo == loc[t].todo \ {loc[t].key}
                    done == [l EXCEPT !.todo = todo,
                                      !.positions = MapPut(@, loc[t].key, a.pos)]
                IN  IF todo = {}
                    THEN Goto(t, "l_append", [done EXCEPT !.key = TXN_FIN_KEY])
                    ELSE \E k \in todo :
                            Goto(t, "l_append", [done EXCEPT !.key = k])

\* append_log_record: active_file.write() (db.rs 125). With no rollover due
\* the record is written and the guard dropped; with one due the guard is
\* kept for older_files.write()
AppendActive(t) ==
    /\ status = "up" /\ pc[t] = "l_append"
    /\ CanWrite(t, "active")
    /\ IF RolloverDue(LockRecord(t))
       THEN /\ Goto(t, "l_append_o",
                    [loc[t] EXCEPT !.held = @ \cup {<<"active", "w">>}])
            /\ UNCHANGED <<disk, activeId, writeOff, older, logical>>
       ELSE LET a == AppendLogRecord(LockRecord(t))
            IN  SetAppended(a) /\ AfterAppend(t, a)
    /\ UNCHANGED <<status, index, seqNo, batchLock, pending, iter, nCommitOk>>
    /\ LockFrame

\* append_log_record: older_files.write() in the rollover (db.rs 132), the
\* rollover, the write, and both guards dropped
AppendOlder(t) ==
    /\ status = "up" /\ pc[t] = "l_append_o"
    /\ CanWrite(t, "older")
    /\ LET a == AppendLogRecord(LockRecord(t))
       IN  SetAppended(a) /\ AfterAppend(t, a)
    /\ UNCHANGED <<status, index, seqNo, batchLock, pending, iter, nCommitOk>>
    /\ LockFrame

\* Btree::get under tree.read() (btree.rs 34-37), in Engine::get,
\* Engine::delete and WriteBatch::delete, and what each does with the answer
Lookup(t) ==
    /\ status = "up" /\ pc[t] = "l_lookup"
    /\ CanRead(t, "tree")
    /\ LET key == loc[t].key
           found == key \in DOMAIN index
       IN  IF loc[t].what = "get"
           THEN /\ IF found
                   THEN Goto(t, "l_read", [loc[t] EXCEPT !.pos = index[key]])
                   ELSE Return(t, Ret("get", key, "KeyNotFound", << >>))
                /\ pending' = pending
           ELSE IF loc[t].what = "delete"
           THEN /\ IF found
                   THEN Goto(t, "l_append", loc[t])
                   ELSE Return(t, Ret("delete", key, "Ok", << >>))
                /\ pending' = pending
           ELSE /\ pending' = [pending EXCEPT ![1] =
                      IF found
                      THEN MapPut(@, key, [key |-> key, value |-> << >>,
                                           rec_type |-> "DELETED"])
                      ELSE MapRemove(@, key)]
                /\ Return(t, Ret("batch_delete", key, "Ok", << >>))
    /\ UNCHANGED <<disk, status, engineVars, batchLock, iter, logical, nCommitOk>>
    /\ LockFrame

\* get_value_by_position: the first of its two read locks
ReadFirst(t) ==
    /\ status = "up" /\ pc[t] = "l_read"
    /\ CanRead(t, ReadLockOrder[1])
    /\ Goto(t, "l_read_2", [loc[t] EXCEPT !.held = @ \cup {<<ReadLockOrder[1], "r">>}])
    /\ UNCHANGED <<disk, status, engineVars, batchLock, pending, iter, logical,
                   nCommitOk>>
    /\ LockFrame

\* get_value_by_position: the second read lock, the read, and the return of
\* Engine::get or of Iterator::next, whose expect panics on an Err
ReadSecond(t) ==
    /\ pc[t] = "l_read_2" /\ status = "up"
    /\ CanRead(t, ReadLockOrder[2])
    /\ LET g == GetValueByPosition(loc[t].pos)
       IN  IF loc[t].what = "get"
           THEN /\ Return(t, Ret("get", loc[t].key, g.res, g.value))
                /\ UNCHANGED <<status, iter>>
           ELSE IF g.res # "Ok"
           THEN /\ Return(t, Ret("next", loc[t].key, "panic", << >>))
                /\ status' = "panic"
                /\ iter' = iter
           ELSE /\ Return(t, Ret("next", loc[t].key, "Some", g.value))
                /\ status' = status
                /\ iter' = [iter EXCEPT !.out = Append(@, [key |-> loc[t].key,
                                                           value |-> g.value])]
    /\ UNCHANGED <<disk, engineVars, batchLock, pending, logical, nCommitOk>>
    /\ LockFrame

\* Engine::sync: active_file.write().sync() (db.rs 214), as a call and inside
\* commit (batch.rs 111-113)
SyncActive(t) ==
    /\ status = "up" /\ pc[t] = "l_sync"
    /\ CanWrite(t, "active")
    /\ IF loc[t].what = "sync"
       THEN Return(t, Ret("sync", << >>, "Ok", << >>))
       ELSE Goto(t, "l_index", loc[t])
    /\ UNCHANGED <<disk, status, engineVars, batchLock, pending, iter, logical,
                   nCommitOk>>
    /\ LockFrame

\* Btree::put and Btree::delete under tree.write() (btree.rs 27-42): the one
\* of Engine::put or Engine::delete, or one turn of commit's loop
IndexWrite(t) ==
    /\ status = "up" /\ pc[t] = "l_index"
    /\ CanWrite(t, "tree")
    /\ IF loc[t].what = "put"
       THEN /\ index' = MapPut(index, loc[t].key, loc[t].pos)
            /\ Return(t, Ret("put", loc[t].key, "Ok", << >>))
       ELSE IF loc[t].what = "delete"
       THEN /\ index' = MapRemove(index, loc[t].key)
            /\ Return(t, Ret("delete", loc[t].key,
                             IF loc[t].key \in DOMAIN index THEN "Ok"
                             ELSE "IndexUpdateFailed", << >>))
       ELSE \E k \in loc[t].todo :
               /\ index' = IF pending[1][k].rec_type = "NORMAL"
                           THEN MapPut(index, k, loc[t].positions[k])
                           ELSE MapRemove(index, k)
               /\ Goto(t, "l_index", [loc[t] EXCEPT !.todo = @ \ {k}])
    /\ UNCHANGED <<disk, status, activeId, writeOff, older, seqNo, batchLock,
                   pending, iter, logical, nCommitOk>>
    /\ LockFrame

\* WriteBatch::commit: pending_writes.clear() and the return, which drops
\* the guards of both mutexes (batch.rs 125-127)
CommitReturn(t) ==
    /\ status = "up" /\ pc[t] = "l_index"
    /\ loc[t].what = "commit" /\ loc[t].todo = {}
    /\ pending' = [pending EXCEPT ![1] = EmptyMap]
    /\ batchLock' = 0
    /\ nCommitOk' = nCommitOk + 1
    /\ Return(t, [Ret("commit", << >>, "Ok", << >>) EXCEPT !.batch = pending[1]])
    /\ UNCHANGED <<disk, status, engineVars, iter, logical>>
    /\ LockFrame

\* pending_writes.lock() of the one WriteBatch both callers use: put stages
\* and returns (batch.rs 51-53), delete keeps the guard for the lookup
\* (batch.rs 59-60), commit returns on an empty or too large batch and else
\* keeps the guard for batch_commit_lock (batch.rs 77-86)
PendingLock(t) ==
    /\ status = "up" /\ pc[t] = "l_pending"
    /\ CanWrite(t, "pending")
    /\ LET l == [loc[t] EXCEPT !.held = @ \cup {<<"pending", "w">>}]
       IN  IF loc[t].what = "batch_put"
           THEN /\ pending' = [pending EXCEPT ![1] =
                      MapPut(@, loc[t].key, [key |-> loc[t].key, value |-> loc[t].value,
                                             rec_type |-> "NORMAL"])]
                /\ Return(t, Ret("batch_put", loc[t].key, "Ok", << >>))
           ELSE /\ pending' = pending
                /\ IF loc[t].what = "batch_delete"
                   THEN Goto(t, "l_lookup", l)
                   ELSE IF Cardinality(DOMAIN pending[1]) = 0
                   THEN Return(t, Ret("commit", << >>, "Ok", << >>))
                   ELSE IF Cardinality(DOMAIN pending[1]) > maxBatchNum
                   THEN Return(t, Ret("commit", << >>, "ExceedMaxBatchNum", << >>))
                   ELSE Goto(t, "l_commit", l)
    /\ UNCHANGED <<disk, status, engineVars, batchLock, iter, logical, nCommitOk>>
    /\ LockFrame

\* WriteBatch::commit: batch_commit_lock.lock() and the fetch_add (batch.rs
\* 86-89), then on to the first staged record
CommitMutex(t) ==
    /\ status = "up" /\ pc[t] = "l_commit"
    /\ batchLock = 0
    /\ batchLock' = t
    /\ seqNo' = seqNo + 1
    /\ \E k \in DOMAIN pending[1] :
          Goto(t, "l_append", [loc[t] EXCEPT !.seq_no = seqNo + 1, !.key = k,
                                             !.todo = DOMAIN pending[1]])
    /\ UNCHANGED <<disk, status, activeId, writeOff, older, index, pending, iter,
                   logical, nCommitOk>>
    /\ LockFrame

\* Iterator::next: index_iter.write() and the index iterator's next
\* (iterator.rs 56-57); the guard is kept for get_value_by_position
IterLock(t) ==
    /\ status = "up" /\ pc[t] = "l_iter"
    /\ CanWrite(t, "iter")
    /\ LET n == BTreeNext(iter.items, iter.curr_index, iter.prefix)
       IN  IF ~n.found
           THEN /\ iter' = [iter EXCEPT !.curr_index = n.curr_index, !.done = TRUE]
                /\ Return(t, Ret("next", << >>, "None", << >>))
           ELSE /\ iter' = [iter EXCEPT !.curr_index = n.curr_index]
                /\ Goto(t, "l_read", [loc[t] EXCEPT !.key = n.item.key,
                                                    !.pos = n.item.pos,
                                                    !.held = @ \cup {<<"iter", "w">>}])
    /\ UNCHANGED <<disk, status, engineVars, batchLock, pending, logical, nCommitOk>>
    /\ LockFrame

\* the steps a caller takes inside a call
LockStep(t) ==
    \/ AppendActive(t)
    \/ AppendOlder(t)
    \/ Lookup(t)
    \/ ReadFirst(t)
    \/ ReadSecond(t)
    \/ SyncActive(t)
    \/ IndexWrite(t)
    \/ CommitReturn(t)
    \/ PendingLock(t)
    \/ CommitMutex(t)
    \/ IterLock(t)

LockCalls == {"put", "get", "delete", "sync", "next", "batch_put", "batch_delete",
              "commit"}

\* two callers on one engine, one WriteBatch (max_batch_num 2) and one
\* iterator, made once over a tree that holds a key; every lock acquisition
\* is a step of its own
NextLocks ==
    \/ \E t \in Threads, what \in LockCalls, k \in LockKeys : LockCall(t, what, k)
    \/ \E t \in Threads :
          /\ ~iter.open /\ index # EmptyMap
          /\ EngineIter(t, << >>, FALSE)
    \/ \E t \in Threads : LockStep(t)

\* the engine of Init with a WriteBatch of max_batch_num 2
InitLocks == Init /\ maxBatchNum = 2

SpecLocks == InitLocks /\ [][NextLocks]_vars

\* the scheduler lets every caller inside a call go on, and a lock that keeps
\* becoming free is given to a caller parked on it
SpecLocksFair == SpecLocks /\ \A t \in Threads : SF_vars(LockStep(t))

(* ------------------------------ claims -------------------------------- *)

RECURSIVE Flatten(_)
Flatten(file_ids) ==
    IF file_ids = << >> THEN << >>
    ELSE disk[file_ids[Len(file_ids)]] \o Flatten(SubSeq(file_ids, 1, Len(file_ids) - 1))

\* every record of the directory in disk order: by file id, then by offset
AllRecords == Flatten(SortDescending(DOMAIN disk))

\* the records written for user key k, in disk order
RecordsOf(k) == SelectSeq(AllRecords, LAMBDA r : r.g_key = k)

Quiet == status = "up" /\ \A t \in Threads : pc[t] = "idle"

\* C1: with only non-batch puts and deletes behind it (no commit has taken a
\* sequence number), a get that succeeds returns the value of the latest put
\* of its key that no delete followed; between calls this holds of every key
\* whose get would succeed.
C1_GetReturnsLatestPut ==
    seqNo = 0 =>
      /\ (ret.op = "get" /\ ret.res = "Ok") =>
            (ret.key \in DOMAIN logical /\ ret.value = logical[ret.key])
      /\ Quiet =>
            \A k \in Keys : EngineGet(k).res = "Ok" =>
                (k \in DOMAIN logical /\ EngineGet(k).value = logical[k])

\* C1 witness: after a rollover a get returned the empty value that was put
\* over an earlier value of the same key
C1_Witness ==
    /\ seqNo = 0 /\ activeId >= 1
    /\ ret.op = "get" /\ ret.res = "Ok" /\ ret.value = << >>
    /\ Len(RecordsOf(ret.key)) >= 2

\* C2: between calls, a key whose last durable write is a delete (no put and
\* no committed batch put of it since) is answered KeyNotFound by get and is
\* absent from list_keys.
C2_DeletedKeyStaysAbsent ==
    Quiet =>
      \A k \in Keys :
        (RecordsOf(k) # << >> /\ k \notin DOMAIN logical) =>
            (EngineGet(k).res = "KeyNotFound" /\ k \notin ListKeys)

\* C2 witness: delete of a present key has just returned Ok, its tombstone is
\* the last record written for the key, and the key is gone from the index
C2_Witness ==
    /\ Quiet /\ ret.op = "delete" /\ ret.res = "Ok"
    /\ RecordsOf(ret.key) # << >>
    /\ RecordsOf(ret.key)[Len(RecordsOf(ret.key))].tag = DELETED
    /\ ret.key \notin ListKeys

\* C5: a WriteBatch put or delete (a step between two idle states that changes
\* the staging map) changes neither the KeyDirectory nor the data files, and
\* a key whose only put sits in the staging map is answered KeyNotFound.
C5_StagedWritesInvisible ==
    /\ [](Quiet =>
            \A k \in Keys :
              (k \in DOMAIN pending[1] /\ RecordsOf(k) = << >>) =>
                  (EngineGet(k).res = "KeyNotFound" /\ k \notin ListKeys))
    /\ [][(pc[1] = "idle" /\ pc'[1] = "idle" /\ pending' # pending) =>
            (index' = index /\ disk' = disk /\ seqNo' = seqNo)]_vars

\* C5 witness: a get of a key staged as a put, and never written, returned
\* KeyNotFound
C5_Witness ==
    /\ ret.op = "get" /\ ret.res = "KeyNotFound"
    /\ ret.key \in DOMAIN pending[1]
    /\ pending[1][ret.key].rec_type = "NORMAL"
    /\ RecordsOf(ret.key) = << >>

\* C6: when commit has returned Ok, get of every key it had staged as a put
\* returns the staged value, and get of every key it had staged as DELETED
\* returns KeyNotFound.
C6_CommitMakesStagedValuesVisible ==
    (ret.op = "commit" /\ ret.res = "Ok") =>
      \A k \in DOMAIN ret.batch :
        IF ret.batch[k].rec_type = "NORMAL"
        THEN EngineGet(k) = [res |-> "Ok", value |-> ret.batch[k].value]
        ELSE EngineGet(k).res = "KeyNotFound"

\* the engine is up again after the stop that `stop` recorded
Reopened(kind) == status = "up" /\ stop.kind = kind

\* C3: after a clean close and a new open, list_keys is exactly the set of
\* keys whose last durable write was NORMAL; a key deleted before the close
\* is not listed.
C3_ReopenListsLiveKeys ==
    Reopened("closed") => ListKeys = DOMAIN logical

\* every record of the directory is a non-batch put
OnlyPuts == \A i \in 1..Len(AllRecords) :
                AllRecords[i].tag = NORMAL /\ AllRecords[i].g_seq = 0

\* C4: after non-batch puts only, a close and a new open, get of every key
\* that was live returns what it returned just before the close.
C4_ReopenKeepsValues ==
    (Reopened("closed") /\ OnlyPuts) =>
        \A k \in Keys : stop.view[k].res = "Ok" => EngineGet(k) = stop.view[k]

\* the records the batch with sequence number s left on disk
BatchRecords(s) == SelectSeq(AllRecords, LAMBDA r : r.g_seq = s)

\* the crash hit caller 1 inside commit, after some staged record of its
\* batch was appended and before the terminator was
TornCommit ==
    /\ stop.kind = "crashed" /\ stop.pc[1] = "commit_write"
    /\ BatchRecords(stop.seqNo) # << >>

\* C7: after a crash that left staged records of a batch on disk without the
\* terminator, and a new open, no index entry points at a record of that
\* batch and every key is visible exactly if it was before the batch started.
C7_TornBatchRolledBack ==
    (status = "up" /\ TornCommit) =>
        /\ \A k \in DOMAIN index :
              \A i \in 1..Len(disk[index[k].file_id]) :
                 OffsetOf(disk[index[k].file_id], i) = index[k].offset =>
                    disk[index[k].file_id][i].g_seq # stop.seqNo
        /\ \A k \in Keys : (EngineGet(k).res = "Ok") = (stop.view[k].res = "Ok")

\* the crash hit caller 1 inside commit after the terminator was appended
\* and before the index loop finished
CrashAfterTerminator ==
    stop.kind = "crashed" /\ stop.pc[1] \in {"commit_sync", "commit_index"}

\* C8: after a crash that followed the append of a batch's terminator, open
\* succeeds and every key the batch put is in the KeyDirectory and every key
\* it deleted is not, also when a rollover separated records and terminator.
C8_TerminatedBatchRecovered ==
    (CrashAfterTerminator /\ status # "crashed") =>
        /\ status = "up"
        /\ \A k \in DOMAIN stop.pending[1] :
              IF stop.pending[1][k].rec_type = "NORMAL"
              THEN k \in ListKeys ELSE k \notin ListKeys

\* the batch records of the directory, in disk order
BatchLog == SelectSeq(AllRecords, LAMBDA r : r.g_seq # 0)

\* C9: with commits of different batches running concurrently, no two
\* terminators carry the same sequence number, and in disk order every record
\* of a batch with a higher sequence number lies after every record (the
\* terminator included) of a batch with a lower one.
C9_CommitsDoNotInterleave ==
    \A i, j \in 1..Len(BatchLog) :
        i < j =>
          /\ BatchLog[i].g_seq <= BatchLog[j].g_seq
          /\ (BatchLog[i].tag = TXN_FINISHED /\ BatchLog[j].tag = TXN_FINISHED)
                => BatchLog[i].g_seq # BatchLog[j].g_seq

\* C9 witness: caller 2 waits for the commit lock while caller 1, its record
\* and its terminator appended, still holds it
C9_Witness ==
    /\ pc[2] = "commit_lock" /\ pc[1] = "commit_index"
    /\ Len(BatchRecords(loc[1].seq_no)) = 2

C11_ReopenKeepsSequenceCounter ==
    Reopened("closed") => seqNo = stop.seqNo

\* the record that starts at pos, as a one-element set (empty when pos is
\* no start of a record of an existing file)
RecordAt(pos) ==
    IF pos.file_id \notin DOMAIN disk THEN {}
    ELSE {disk[pos.file_id][i] : i \in {j \in 1..Len(disk[pos.file_id]) :
                                     OffsetOf(disk[pos.file_id], j) = pos.offset}}

\* C12: whenever the engine is up, every KeyDirectory entry K -> (file_id,
\* offset) points at the start of a record of that data file whose type is
\* NORMAL and whose key, the sequence number taken off, is K.
C12_IndexPointsAtLiveRecords ==
    status = "up" =>
      \A k \in DOMAIN index :
        \E r \in RecordAt(index[k]) :
            r.tag = NORMAL /\ ParseLogRecordKey(r.key).key = k

\* the place and the type of the record written last, in disk order, for
\* user key k (k has a record)
LastWriteOf(k) ==
    LET f == CHOOSE x \in DOMAIN disk :
                /\ \E i \in 1..Len(disk[x]) : disk[x][i].g_key = k
                /\ \A y \in DOMAIN disk :
                      (\E i \in 1..Len(disk[y]) : disk[y][i].g_key = k) => y <= x
        i == CHOOSE x \in 1..Len(disk[f]) :
                /\ disk[f][x].g_key = k
                /\ \A y \in 1..Len(disk[f]) : disk[f][y].g_key = k => y <= x
    IN  [pos |-> [file_id |-> f, offset |-> OffsetOf(disk[f], i)],
         tag |-> disk[f][i].tag]

\* C13: when every concurrent put and delete has returned, the KeyDirectory
\* entry of each written key is the place of the record written last for it
\* in disk order, and the key is absent when that record is a tombstone.
C13_LastWriterInDiskOrderWins ==
    Quiet =>
      \A k \in Keys :
        RecordsOf(k) # << >> =>
          IF LastWriteOf(k).tag = NORMAL
          THEN k \in DOMAIN index /\ index[k] = LastWriteOf(k).pos
          ELSE k \notin DOMAIN index

\* C14: a put, get, delete, WriteBatch put or WriteBatch delete made with the
\* empty key returns KeyIsEmpty, never gets past its first check, and the
\* step that returns KeyIsEmpty leaves the data files, the KeyDirectory, the
\* staging map and the sequence counter as they were.
C14_EmptyKeyRejected ==
    /\ [](/\ (ret.op \in {"put", "get", "delete", "batch_put", "batch_delete"}
                /\ ret.key = << >>) => ret.res = "KeyIsEmpty"
          /\ pc[1] \in {"put_index", "del_append", "del_index", "get_read"}
                => loc[1].key # << >>
          /\ << >> \notin DOMAIN index \cup DOMAIN pending[1])
    /\ [][ret'.res = "KeyIsEmpty" =>
            /\ ret'.op \in {"put", "get", "delete", "batch_put", "batch_delete"}
            /\ UNCHANGED <<disk, index, pending, seqNo, activeId, writeOff, older>>]_vars

\* C14 witness: a WriteBatch put with the empty key was turned down on an
\* engine that holds records, index entries and staged writes
C14_Witness ==
    /\ ret.op = "batch_put" /\ ret.res = "KeyIsEmpty"
    /\ index # EmptyMap /\ pending[1] # EmptyMap /\ seqNo > 0

\* C15: a commit of more than max_batch_num staged entries returns
\* ExceedMaxBatchNum in a step that appends nothing and leaves the sequence
\* counter, the KeyDirectory and the staging map alone; a commit of at most
\* max_batch_num entries is never answered ExceedMaxBatchNum.
C15_OversizedBatchRejected ==
    /\ [](/\ ret.res = "ExceedMaxBatchNum" =>
                Cardinality(DOMAIN pending[1]) > maxBatchNum
          /\ pc[1] \in CommitPcs =>
                Cardinality(DOMAIN pending[1]) <= maxBatchNum)
    /\ [][/\ ret'.res = "ExceedMaxBatchNum" =>
                /\ ret'.op = "commit"
                /\ UNCHANGED <<disk, index, seqNo, pending, activeId, writeOff, older>>
          /\ (pc[1] = "idle" /\ ret'.op = "commit"
                /\ Cardinality(DOMAIN pending[1]) > maxBatchNum) =>
                ret'.res = "ExceedMaxBatchNum"]_vars

\* C15 witness: with max_batch_num 1, a batch of one entry was committed and
\* a batch of two has just been turned down
C15_Witness ==
    /\ maxBatchNum = 1 /\ nCommitOk = 1 /\ seqNo = 1
    /\ ret.op = "commit" /\ ret.res = "ExceedMaxBatchNum"
    /\ Cardinality(DOMAIN pending[1]) = 2

\* the keys an iterator made with its options over the keys `at` has to yield
Admitted == {k \in iter.at : StartsWith(k, iter.prefix)}

\* C16: the keys an iterator has yielded are keys that were live when it was
\* made and start with its prefix (every live key when the prefix is empty),
\* each at most once, ascending in byte order, descending when reverse is
\* set; once next has returned None every such key has been yielded.
C16_IteratorYieldsLiveKeysInOrder ==
    iter.open =>
      /\ \A i \in 1..Len(iter.out) : iter.out[i].key \in Admitted
      /\ \A i, j \in 1..Len(iter.out) :
            i < j => IF iter.reverse
                     THEN LexLess(iter.out[j].key, iter.out[i].key)
                     ELSE LexLess(iter.out[i].key, iter.out[j].key)
      /\ iter.done => {iter.out[i].key : i \in 1..Len(iter.out)} = Admitted

\* C16 witness: a reverse iterator with prefix "a" over the keys a, ab and b
\* has yielded ab, then a, and then None
C16_Witness ==
    /\ iter.open /\ iter.done /\ iter.reverse /\ iter.prefix = <<97>>
    /\ iter.at = IterKeys
    /\ Len(iter.out) = 2
    /\ iter.out[1].key = <<97, 98>> /\ iter.out[2].key = <<97>>

\* C17: every record on disk that was appended outside a batch, by
\* Engine::put or by Engine::delete, has a key from which the recovery's
\* parse_log_record_key takes sequence number 0 and the user key it was
\* written for.
C17_NonBatchKeysFramed ==
    \A i \in 1..Len(AllRecords) :
        AllRecords[i].g_seq = 0 =>
            LET p == ParseLogRecordKey(AllRecords[i].key)
            IN  /\ p.ok
                /\ p.seq_no = NON_TRANSACTION_SEQ_NO
                /\ p.key = AllRecords[i].g_key

\* C18: the file ids the recovery walks are in ascending order, and after an
\* open over a directory of non-batch puts the KeyDirectory entry of every
\* key points into the highest-numbered file that holds a record of the key.
C18_ReplayAscending ==
    (status = "up" /\ stop.kind # "none" /\ OnlyPuts) =>
        /\ \A i, j \in 1..Len(LoadDataFiles) :
              i < j => LoadDataFiles[i] < LoadDataFiles[j]
        /\ \A k \in Keys :
              RecordsOf(k) # << >> =>
                  /\ k \in DOMAIN index
                  /\ index[k].file_id = LastWriteOf(k).pos.file_id

\* C19: whenever the engine is up, the active file is the data file with the
\* highest id and its write offset is the byte length of that file.
C19_WriteOffsetIsFileLength ==
    status = "up" =>
        /\ \A f \in DOMAIN disk : f <= activeId
        /\ writeOff = SizeOf(disk[activeId])

\* C20: a step of commit changes the KeyDirectory only after every staged
\* record and the terminator of its batch are in the data files, and the step
\* in which commit returns a write's or the sync's error leaves the
\* KeyDirectory as it is: as it was when the commit began.
C20_IndexUpdatedAfterAppends ==
    [][/\ (pc[1] \in CommitPcs /\ index' # index) =>
              /\ pc[1] = "commit_index"
              /\ Len(BatchRecords(loc[1].seq_no)) = Cardinality(DOMAIN pending[1]) + 1
              /\ \E i \in 1..Len(BatchRecords(loc[1].seq_no)) :
                    BatchRecords(loc[1].seq_no)[i].tag = TXN_FINISHED
       /\ (pc[1] \in CommitPcs /\ ret'.op = "commit" /\ ret'.res # "Ok") =>
              /\ ret'.res \in {"FailedToWriteToDataFile", "FailedSynDataFile"}
              /\ index' = index]_vars

\* C20 witness: commit returned the sync's error with the batch and its
\* terminator on disk and a key it had staged as a put not in the KeyDirectory
C20_Witness ==
    /\ ret.op = "commit" /\ ret.res = "FailedSynDataFile"
    /\ Len(BatchRecords(seqNo)) = Cardinality(DOMAIN pending[1]) + 1
    /\ \E k \in DOMAIN pending[1] :
          pending[1][k].rec_type = "NORMAL" /\ k \notin DOMAIN index

\* C21: a step in which Engine::delete is called with a non-empty key that
\* the KeyDirectory does not hold is the whole call: it returns Ok and leaves
\* the data files, the active file's id and write offset, the older files,
\* the KeyDirectory and the sequence counter as they were; the tombstone a
\* delete appends is always for a key the KeyDirectory holds.
C21_DeleteOfAbsentKeyChangesNothing ==
    [][/\ (pc[1] = "idle" /\ ret'.op = "delete" /\ ret'.key # << >>
             /\ ret'.key \notin DOMAIN index) =>
            /\ ret'.res = "Ok" /\ pc'[1] = "idle"
            /\ UNCHANGED <<disk, activeId, writeOff, older, index, seqNo, pending>>
       /\ (pc[1] = "del_append" /\ disk' # disk) => loc[1].key \in DOMAIN index
       /\ (pc[1] = "idle" /\ pc'[1] = "del_append") => loc'[1].key \in DOMAIN index]_vars

\* C21 witness: on an engine that holds a record and an index entry, a delete
\* has returned Ok for a key that was never written, and no tombstone is on
\* disk
C21_Witness ==
    /\ Quiet /\ ret.op = "delete" /\ ret.res = "Ok"
    /\ RecordsOf(ret.key) = << >>
    /\ index # EmptyMap
    /\ \A i \in 1..Len(AllRecords) : AllRecords[i].tag # DELETED

\* the highest id among the data files of the directory
MaxFileId == CHOOSE x \in DOMAIN disk : \A y \in DOMAIN disk : y <= x

\* C22 as stated: while the engine is up the active file's id is strictly
\* greater than every id in the older-files map.
C22_ActiveIdAboveOlderIds ==
    status = "up" => \A f \in older : f < activeId

\* C22 amended: while the engine is up the active file is the file of the
\* highest id in the directory and no older id is greater than it; every
\* older id is strictly smaller unless a rollover failed to open its new
\* file; a step that changes the active id of a running engine is a rollover
\* that puts the old id into the older-files map and makes the old id + 1
\* active, so the active id never goes back to an earlier one.
C22_ActiveIdIsHighest ==
    /\ [](status = "up" =>
            /\ activeId = MaxFileId
            /\ older \subseteq DOMAIN disk
            /\ \A f \in older : f <= activeId
            /\ ioErrors = 0 => \A f \in older : f < activeId)
    /\ [][(status = "up" /\ status' = "up" /\ activeId' # activeId) =>
            /\ activeId' = activeId + 1
            /\ older' = older \cup {activeId}
            /\ activeId' \notin DOMAIN disk]_vars

\* C22 witness: the engine was reopened over two files and has rolled over
\* once more since: file 2 is active, files 0 and 1 are the older ones
C22_Witness ==
    /\ status = "up" /\ nStops = 1
    /\ activeId = 2 /\ older = {0, 1}

\* C23 as stated: every data file other than the active one holds at most
\* data_file_size bytes, whatever the sizes of the records appended.
C23_OlderFilesWithinSize ==
    \A f \in DOMAIN disk \ {activeId} : SizeOf(disk[f]) <= DataFileSize

\* C23 amended: in a session begun on an empty directory, every data file
\* holds at most data_file_size bytes or holds exactly one record (a record
\* longer than data_file_size gets a file of its own); the write offset is
\* the length of the active file, and the position an append has returned is
\* the start of the record appended, which ends inside the same file.
C23_FilesWithinSizeOrOneRecord ==
    /\ \A f \in DOMAIN disk :
          SizeOf(disk[f]) <= DataFileSize \/ Len(disk[f]) = 1
    /\ writeOff = SizeOf(disk[activeId])
    /\ pc[1] \in {"put_index", "del_index"} =>
          \E r \in RecordAt(loc[1].pos) :
             /\ r.g_key = loc[1].key
             /\ loc[1].pos.offset + EncodeLength(r)
                   <= SizeOf(disk[loc[1].pos.file_id])

\* C23 witness: after two rollovers one older file holds two short records
\* and another holds the single record that is longer than data_file_size
C23_Witness ==
    /\ Quiet
    /\ \E f \in older : Len(disk[f]) = 2 /\ SizeOf(disk[f]) <= DataFileSize
    /\ \E g \in older : Len(disk[g]) = 1 /\ SizeOf(disk[g]) > DataFileSize

\* C24: a commit called on an empty staging map is one step that returns Ok
\* and leaves the data files, the active file, the KeyDirectory, the sequence
\* counter and the staging map as they were; no commit gets past its first
\* check with nothing staged, and no terminator is on disk without a record
\* of its batch.
C24_EmptyCommitChangesNothing ==
    /\ [](/\ pc[1] \in CommitPcs => pending[1] # EmptyMap
          /\ \A i \in 1..Len(AllRecords) :
                AllRecords[i].tag = TXN_FINISHED =>
                   \E j \in 1..Len(AllRecords) :
                      /\ AllRecords[j].g_seq = AllRecords[i].g_seq
                      /\ AllRecords[j].tag # TXN_FINISHED)
    /\ [][(pc[1] = "idle" /\ ret'.op = "commit" /\ pending[1] = EmptyMap) =>
            /\ ret'.res = "Ok" /\ pc'[1] = "idle"
            /\ UNCHANGED <<disk, activeId, writeOff, older, index, seqNo, pending,
                           batchLock, nCommitOk>>]_vars

\* C24 witness: after one commit that wrote a batch, a commit of the emptied
\* batch has returned Ok; the counter is still 1
C24_Witness ==
    /\ Quiet /\ ret.op = "commit" /\ ret.res = "Ok" /\ ret.batch = EmptyMap
    /\ pending[1] = EmptyMap
    /\ nCommitOk = 1 /\ seqNo = 1 /\ index # EmptyMap

\* C25: the step in which a commit returns Ok leaves the staging map empty,
\* and only a WriteBatch put or delete adds a key to it afterwards; a commit that
\* follows a successful commit at once appends nothing; on disk no batch
\* holds two records of one key, and the records of the batch just committed
\* are for the keys that were staged for it.
C25_CommitEmptiesStagingMap ==
    /\ [](/\ \A i, j \in 1..Len(BatchLog) :
                (i # j /\ BatchLog[i].g_seq = BatchLog[j].g_seq) =>
                    BatchLog[i].g_key # BatchLog[j].g_key
          /\ (ret.op = "commit" /\ ret.res = "Ok" /\ ret.batch # EmptyMap) =>
                /\ pending[1] = EmptyMap
                /\ {BatchRecords(seqNo)[i].g_key : i \in 1..Len(BatchRecords(seqNo))}
                      = DOMAIN ret.batch \cup {TXN_FIN_KEY})
    /\ [][/\ (ret'.op = "commit" /\ ret'.res = "Ok") => pending'[1] = EmptyMap
          /\ ~(DOMAIN pending'[1] \subseteq DOMAIN pending[1]) =>
                /\ ret'.op \in {"batch_put", "batch_delete"}
                /\ DOMAIN pending'[1] = DOMAIN pending[1] \cup {ret'.key}
          /\ (ret.op = "commit" /\ ret.res = "Ok" /\ pc[1] = "idle"
                /\ (ret'.op = "commit" \/ pc'[1] \in CommitPcs)) =>
                (disk' = disk /\ seqNo' = seqNo /\ index' = index)]_vars

\* C25 witness: one WriteBatch was committed twice, first with the key "a"
\* staged and then with the key "b": the second batch on disk holds a record
\* of "b" and none of "a"
C25_Witness ==
    /\ Quiet /\ nCommitOk = 2 /\ seqNo = 2
    /\ ret.op = "commit" /\ ret.res = "Ok" /\ DOMAIN ret.batch = {<<98>>}
    /\ \E i \in 1..Len(BatchRecords(1)) : BatchRecords(1)[i].g_key = <<97>>
    /\ \A i \in 1..Len(BatchRecords(2)) : BatchRecords(2)[i].g_key # <<97>>
    /\ Len(BatchRecords(2)) = 2

\* C26: when a commit has returned Ok, the records on disk with its sequence
\* number are one per key that was staged and one terminator, and the record
\* of each key carries the type and the value that were staged for it last.
C26_CommitAppendsLastStagedWrite ==
    (ret.op = "commit" /\ ret.res = "Ok" /\ ret.batch # EmptyMap) =>
      /\ Len(BatchRecords(seqNo)) = Cardinality(DOMAIN ret.batch) + 1
      /\ \E i \in 1..Len(BatchRecords(seqNo)) :
            BatchRecords(seqNo)[i].tag = TXN_FINISHED
      /\ \A k \in DOMAIN ret.batch :
            \E i \in 1..Len(BatchRecords(seqNo)) :
               /\ BatchRecords(seqNo)[i].g_key = k
               /\ BatchRecords(seqNo)[i].tag = ToU8(ret.batch[k].rec_type)
               /\ BatchRecords(seqNo)[i].value = ret.batch[k].value

\* C27: a WriteBatch delete of a non-empty key k is one step that returns Ok
\* and touches neither the data files nor the KeyDirectory nor the staged
\* entries of other keys; when the KeyDirectory does not hold k the staging
\* map afterwards is the one before without k (unchanged when k was not
\* staged), otherwise k is staged as {k, empty, DELETED} in place of whatever
\* was staged for it. A commit appends records only for keys still staged.
C27_BatchDeleteCases ==
    /\ [](pc[1] \in CommitPcs \ {"commit_lock"} =>
            \A i \in 1..Len(BatchRecords(loc[1].seq_no)) :
               BatchRecords(loc[1].seq_no)[i].g_key
                  \in DOMAIN pending[1] \cup {TXN_FIN_KEY})
    /\ [][(pc[1] = "idle" /\ ret'.op = "batch_delete" /\ ret'.key # << >>) =>
            /\ ret'.res = "Ok" /\ pc'[1] = "idle"
            /\ UNCHANGED <<disk, activeId, writeOff, older, index, seqNo>>
            /\ pending'[1] =
                 IF ret'.key \notin DOMAIN index
                 THEN IF ret'.key \in DOMAIN pending[1]
                      THEN [x \in DOMAIN pending[1] \ {ret'.key} |-> pending[1][x]]
                      ELSE pending[1]
                 ELSE [x \in DOMAIN pending[1] \cup {ret'.key} |->
                         IF x = ret'.key
                         THEN [key |-> x, value |-> << >>, rec_type |-> "DELETED"]
                         ELSE pending[1][x]]]_vars

\* C27 witness: with "a" in the KeyDirectory and a put of "b" staged, a
\* WriteBatch delete of "a" has returned and "a" is staged as DELETED; "b",
\* which the KeyDirectory does not hold, is still staged as a put
C27_Witness ==
    /\ Quiet /\ ret.op = "batch_delete" /\ ret.res = "Ok" /\ ret.key = <<97>>
    /\ <<97>> \in DOMAIN index /\ <<98>> \notin DOMAIN index
    /\ DOMAIN pending[1] = {<<97>>, <<98>>}
    /\ pending[1][<<97>>].rec_type = "DELETED"
    /\ pending[1][<<98>>].rec_type = "NORMAL"

RECURSIVE SortKeys(_)
\* the keys S in byte order
SortKeys(S) ==
    IF S = {} THEN << >>
    ELSE LET m == CHOOSE x \in S : \A y \in S \ {x} : LexLess(x, y)
         IN  <<m>> \o SortKeys(S \ {m})

\* the keys an iterator made with prefix and reverse over the keys `at`
\* yields, in the order it yields them
YieldOf(at, prefix, reverse) ==
    LET q == SortKeys({k \in at : StartsWith(k, prefix)})
    IN  IF reverse THEN Reverse(q) ELSE q

\* C28: whatever another caller puts, deletes or commits after an iterator
\* was made, the keys the iterator has yielded are the first keys, in order,
\* of the run fixed by the KeyDirectory's keys at its creation, and all of
\* that run once next has returned None; its copy of the entries is changed
\* by no step after its creation, and next never fails to read a value.
C28_IteratorIsSnapshot ==
    /\ [](/\ status # "panic"
          /\ iter.open =>
               LET run == YieldOf(iter.at, iter.prefix, iter.reverse)
               IN  /\ Len(iter.out) <= Len(run)
                   /\ \A i \in 1..Len(iter.out) : iter.out[i].key = run[i]
                   /\ iter.done => Len(iter.out) = Len(run))
    /\ [][iter.open => (iter'.items = iter.items /\ iter'.at = iter.at)]_vars

\* C28 witness: an iterator made when the KeyDirectory held only "a" has
\* yielded "a" and then None, after "a" was deleted and "b" was added
C28_Witness ==
    /\ iter.open /\ iter.done /\ iter.at = {<<97>>}
    /\ Len(iter.out) = 1 /\ iter.out[1].key = <<97>>
    /\ DOMAIN index = {<<98>>}
    /\ iter.curr_index = 1

\* the snapshot keys seek(key) leaves ahead of the cursor of the iterator:
\* those not below key, or not above it when reverse is set, that start with
\* the prefix
Ahead ==
    {k \in iter.at :
        /\ StartsWith(k, iter.prefix)
        /\ IF iter.reverse THEN ~LexLess(iter.key, k) ELSE ~LexLess(k, iter.key)}

\* C29: the next() that follows a seek(k) returns the smallest snapshot key
\* that is >= k and starts with the prefix, the greatest such key <= k for a
\* reverse iterator, and None when the snapshot holds no such key.
C29_SeekThenNext ==
    [][(pc[1] = "idle" /\ ret.op = "seek" /\ ret'.op = "next") =>
          IF Ahead = {} THEN ret'.res = "None"
          ELSE /\ ret'.res = "Some"
               /\ ret'.key \in Ahead
               /\ \A k \in Ahead \ {ret'.key} :
                     IF iter.reverse THEN LexLess(k, ret'.key)
                     ELSE LexLess(ret'.key, k)]_vars

\* C29 witness: on a reverse iterator over a, ab and b, seek("ac") missed
\* and the next() after it returned "ab"
C29_Witness ==
    /\ iter.open /\ iter.reverse /\ iter.prefix = << >> /\ iter.at = IterKeys
    /\ iter.from = "seek" /\ iter.key = <<97, 99>>
    /\ ret.op = "next" /\ ret.res = "Some" /\ ret.key = <<97, 98>>
    /\ Len(iter.out) = 1

RECURSIVE FreshRun(_, _, _)
\* what the calls to next() of an iterator just made over items return one
\* after the other, from curr_index on
FreshRun(items, curr_index, prefix) ==
    LET n == BTreeNext(items, curr_index, prefix)
    IN  IF ~n.found THEN << >>
        ELSE <<[key |-> n.item.key, value |-> GetValueByPosition(n.item.pos).value]>>
                \o FreshRun(items, n.curr_index, prefix)

\* C30: after a rewind, from whatever position, the items next() has
\* returned are the first items, in order, of what a new iterator over the
\* same snapshot returns, and all of them once next() has returned None.
C30_RewindStartsOver ==
    (iter.open /\ iter.from = "rewind") =>
        LET run == FreshRun(iter.items, 0, iter.prefix)
        IN  /\ Len(iter.out) <= Len(run)
            /\ iter.out = SubSeq(run, 1, Len(iter.out))
            /\ iter.done => iter.out = run

\* C30 witness: an iterator over a, ab and b was rewound with its cursor at
\* the end, and has since returned the three items again and then None
C30_Witness ==
    /\ iter.open /\ iter.from = "rewind" /\ iter.before = 3
    /\ iter.prefix = << >> /\ iter.at = IterKeys
    /\ iter.done /\ Len(iter.out) = 3

\* the ids of the files a reader finds: the active one and the older ones
OpenFiles == {activeId} \cup older

\* C31: with a reader beside a writer that rolls the active file over, no
\* get and no iterator fetch ends in DataFileNotFound; whenever the reader
\* can take the file locks (no append is in its critical section), every
\* position in the KeyDirectory, the position a get has looked up and every
\* position an iterator has copied name the active file or an older file.
C31_ReaderFindsEveryFile ==
    /\ ret.res # "DataFileNotFound" /\ status # "panic"
    /\ \A k \in DOMAIN index : index[k].file_id \in OpenFiles
    /\ pc[1] = "get_read" => loc[1].pos.file_id \in OpenFiles
    /\ iter.open =>
          \A i \in 1..Len(iter.items) : iter.items[i].pos.file_id \in OpenFiles

\* C31 witness: a get returned the value of a key whose record is in an
\* older file while the put of the other caller, which has just rolled over
\* and written at offset 0 of the new active file, has not yet updated the
\* KeyDirectory
C31_Witness ==
    /\ ret.op = "get" /\ ret.res = "Ok"
    /\ ret.key \in DOMAIN index /\ index[ret.key].file_id \in older
    /\ pc[2] = "put_index"
    /\ loc[2].pos = [file_id |-> activeId, offset |-> 0]

\* a stored record whose checksum no longer matches its content
Damaged ==
    \E f \in DOMAIN disk : \E i \in 1..Len(disk[f]) :
        disk[f][i].crc # Crc(disk[f][i].tag, disk[f][i].key, disk[f][i].value)

StoredKeys == UNION {{disk[f][i].g_key : i \in 1..Len(disk[f])} : f \in DOMAIN disk}

\* C33: during open the end of a data file ends the replay of that file only
\* and replay goes on with the next file, while any other read error ends
\* open with that error and no Engine. Of every open: with a damaged record
\* in any file no Engine comes up; among puts' records the error returned is
\* InvalidLogRecordCrc; and with no damage the Engine comes up holding the
\* keys of every file, so no file's end stopped the replay of the others.
C33_OpenEndsOnReadErrorOnly ==
    [][(status \in {"closed", "crashed"} /\ status' # status) =>
          /\ Damaged => status' # "up" /\ engineVars' = engineVars
          /\ (Damaged /\ OnlyPuts) => status' = "InvalidLogRecordCrc"
          /\ (~Damaged /\ OnlyPuts) =>
                 status' = "up" /\ DOMAIN index' = StoredKeys]_vars

\* open has failed on a damaged record of the file replayed last, after the
\* end of the other file was reached
C33_Witness ==
    /\ status = "InvalidLogRecordCrc"
    /\ Cardinality(DOMAIN disk) = 2
    /\ \A f \in DOMAIN disk : disk[f] # << >>
    /\ \E i \in 1..Len(disk[INITIAL_FILE_ID]) :
           LET rec == disk[INITIAL_FILE_ID][i]
           IN  rec.crc # Crc(rec.tag, rec.key, rec.value)
    /\ \A i \in 1..Len(disk[1]) :
           disk[1][i].crc = Crc(disk[1][i].tag, disk[1][i].key, disk[1][i].value)

\* the call that returned last is a get of key that found what the batch
\* caller 2 is committing leaves for key: the value of the batch's record,
\* or no key when the batch deletes it
GotBatchState(key) ==
    /\ ret.op = "get" /\ ret.key = key
    /\ key \in DOMAIN pending[2] /\ key \notin loc[2].todo
    /\ IF pending[2][key].rec_type = "NORMAL"
       THEN /\ ret.res = "Ok"
            /\ ret.value = GetValueByPosition(loc[2].positions[key]).value
       ELSE ret.res = "KeyNotFound"

\* caller 1's step is the KeyDirectory lookup of a get of key
LooksUp(key) ==
    /\ pc[1] = "idle"
    /\ \/ pc'[1] = "get_read" /\ loc'[1].key = key
       \/ pc'[1] = "idle" /\ ret'.op = "get" /\ ret'.key = key

\* C34: a batch commit is atomic for concurrent readers. A caller whose get
\* of one key of a batch returned the batch's state, and who then gets
\* another key of that batch while the commit is still updating the
\* KeyDirectory, finds the batch's state for that key too.
C34_CommitAtomicForReaders ==
    [][\A k1, k2 \in Keys :
          (/\ k1 # k2
           /\ pc[2] = "commit_index"
           /\ k2 \in DOMAIN pending[2]
           /\ GotBatchState(k1)
           /\ LooksUp(k2))
          => IF pending[2][k2].rec_type = "NORMAL"
             THEN pc'[1] = "get_read" /\ loc'[1].pos = loc[2].positions[k2]
             ELSE ret'.res = "KeyNotFound"]_vars

\* the sequence numbers of the batches that have records on disk
SeqsOnDisk ==
    UNION {{disk[f][i].g_seq : i \in 1..Len(disk[f])} : f \in DOMAIN disk} \ {0}

\* those of them whose terminator is not on disk
TornSeqs ==
    {s \in SeqsOnDisk :
        ~\E f \in DOMAIN disk : \E i \in 1..Len(disk[f]) :
            disk[f][i].g_seq = s /\ disk[f][i].tag = TXN_FINISHED}

\* where their records are
TornPositions ==
    UNION {{[file_id |-> f, offset |-> OffsetOf(disk[f], i)] :
              i \in {j \in 1..Len(disk[f]) : disk[f][j].g_seq \in TornSeqs}} :
           f \in DOMAIN disk}

\* C35: sequence numbers are never reused across restarts. A commit takes a
\* sequence number greater than that of every batch with records on disk,
\* the unterminated ones included, and no engine, however often reopened,
\* has a KeyDirectory entry for a record of an unterminated batch.
C35_SeqNoNeverReused ==
    /\ [](status = "up" => \A k \in DOMAIN index : index[k] \notin TornPositions)
    /\ [][(\E t \in Threads : pc[t] = "commit_lock" /\ pc'[t] = "commit_write")
            => \A s \in SeqsOnDisk : seqNo' > s]_vars

\* an engine opened for the second time over an unterminated batch that a
\* crash left and a later batch that was committed after the first reopen
C35_Witness ==
    /\ status = "up" /\ nStops = 2
    /\ \E s \in TornSeqs : \E s2 \in SeqsOnDisk \ TornSeqs : s2 > s
    /\ index # EmptyMap

\* a non-batch put of a key lies, in disk order, between a batch's record for
\* that key and the batch's terminator: the put ran while the commit did
OverlapOnDisk ==
    \E i, j, l \in 1..Len(AllRecords) :
        /\ i < j /\ j < l
        /\ AllRecords[i].g_seq # 0 /\ AllRecords[i].tag # TXN_FINISHED
        /\ AllRecords[j].g_seq = 0 /\ AllRecords[j].g_key = AllRecords[i].g_key
        /\ AllRecords[l].g_seq = AllRecords[i].g_seq
        /\ AllRecords[l].tag = TXN_FINISHED

\* C36: recovery reproduces the running state also when a batch commit and
\* a non-batch put of the same key overlapped: after all calls have returned
\* and the engine was closed, the open that follows succeeds and its
\* KeyDirectory maps every key to the position it had before the close.
C36_ReopenKeepsPositions ==
    (stop.kind = "closed" /\ status # "closed" /\ OverlapOnDisk) =>
        status = "up" /\ index = stop.index

\* the lock the caller is about to take, "none" outside a call
Wanted(t) ==
    IF pc[t] \in {"l_append", "l_sync"} THEN "active"
    ELSE IF pc[t] = "l_append_o" THEN "older"
    ELSE IF pc[t] \in {"l_index", "l_lookup"} THEN "tree"
    ELSE IF pc[t] = "l_read" THEN ReadLockOrder[1]
    ELSE IF pc[t] = "l_read_2" THEN ReadLockOrder[2]
    ELSE IF pc[t] = "l_pending" THEN "pending"
    ELSE IF pc[t] = "l_commit" THEN "commit"
    ELSE IF pc[t] = "l_iter" THEN "iter"
    ELSE "none"

\* the locks the caller holds
HeldLocks(t) ==
    {g[1] : g \in loc[t].held} \cup (IF batchLock = t THEN {"commit"} ELSE {})

\* one order of all the locks
LockRank(l) ==
    IF l \in {"iter", "pending"} THEN 0
    ELSE IF l = "commit" THEN 1
    ELSE IF l = "active" THEN 2
    ELSE IF l = "older" THEN 3
    ELSE 4

\* C32: concurrent put, get, delete, sync, next and batch put, delete and
\* commit calls on one Engine do not deadlock. No caller takes a lock that
\* comes, in one fixed order of the staging mutex, the batch-commit mutex,
\* the active-file lock, the older-files lock and the KeyDirectory lock,
\* before or with a lock it holds; and with fair scheduling and no I/O error
\* every call that has begun returns.
C32_EveryCallReturns ==
    /\ [](\A t \in Threads : \A l \in HeldLocks(t) :
             Wanted(t) # "none" => LockRank(l) < LockRank(Wanted(t)))
    /\ \A t \in Threads : (pc[t] # "idle") ~> (pc[t] = "idle")

\* caller 2 is inside a rollover with the active file's write guard, parked
\* on nothing, while caller 1, in a get, waits for the active file
C32_Witness ==
    /\ pc[2] = "l_append_o" /\ <<"active", "w">> \in loc[2].held
    /\ pc[1] = "l_read" /\ loc[1].what = "get"
    /\ ~CanRead(1, ReadLockOrder[1])

=============================================================================
